---------------------------- MODULE Spec2Model ----------------------------
(***************************************************************************)
(* Model of the exit state machine (src/src/execution/exit_manager.py) and *)
(* of the bar-replay ledger (src/src/backtest/backtest_engine.py).         *)
(*                                                                         *)
(* Numbers.  The program computes in binary floating point; the model      *)
(* computes in exact integer arithmetic.  Prices are integers (the inputs  *)
(* are even, so that the one halving of create_exit_strategy is exact),    *)
(* quantities are integers (multiples of the step size, which is even, so  *)
(* that partial_exit_ratio = 1/2 of a quantity is exact), and money is     *)
(* counted in units of 1/MoneyScale, which makes the fee rate and the      *)
(* hourly funding rate whole numbers of units.                             *)
(*                                                                         *)
(* Dictionaries are functions; "symbol in d" is symbol \in DOMAIN d.       *)
(* An Optional result is a sequence of length 0 (None) or 1.               *)
(***************************************************************************)
EXTENDS Integers, Sequences, FiniteSets, TLC

VARIABLES
    active_exits,      \* ExitManager.active_exits : symbol -> ExitStrategy
    trailing_stops,    \* ExitManager.trailing_stops : symbol -> level
    partial_exits,     \* ExitManager.partial_exits : symbol -> record
    now,               \* datetime.now(), in hours
    lastCall,          \* the last exit-manager call, its inputs and its result
    current_equity,    \* BacktestEngine.current_equity
    trades,            \* BacktestEngine.trades
    equity_curve,      \* BacktestEngine.equity_curve
    current_positions, \* BacktestEngine.current_positions : symbol -> position
    metadata_cache,    \* SymbolMetadataManager.metadata_cache (its keys)
    pc,                \* the position of run_backtest
    bar_index,         \* i, the index of the bar being processed
    current_bar,       \* data.iloc[i]
    funding_log,       \* history: the funding deducted from equity, per position
    partial_count,     \* history: PARTIAL signals returned, per exit strategy
    audit              \* history: positions opened, signals of the current
                       \* bar and the number of them skipped on a failure

emVars == <<active_exits, trailing_stops, partial_exits>>
ledgerVars == <<current_equity, trades, equity_curve, current_positions,
                metadata_cache, pc, bar_index, current_bar, funding_log,
                audit>>
vars == <<active_exits, trailing_stops, partial_exits, now, lastCall,
          current_equity, trades, equity_curve, current_positions,
          metadata_cache, pc, bar_index, current_bar, funding_log,
          partial_count, audit>>

---------------------------------------------------------------------------
(* Bounds of the model *)

NumPrices == 5
MaxTicks == 1
NumQty == 1

(* Program constants *)

partial_exit_ratio_num == 1        \* config.trading.partial_exit_ratio = 0.5
partial_exit_ratio_den == 2
trailing_atr_multiplier == 2       \* config.trading.trailing_atr_multiplier
max_trade_duration_hours == 48     \* config.trading.max_trade_duration_hours

(* Symbol parameters (SymbolMetadata) in model units *)
TickSize == 2
StepSize == 2

Symbols == {"BTCUSDT"}
BasePrice == 198 * TickSize
Prices == {BasePrice + TickSize * i : i \in 0..(NumPrices - 1)}
EntryPrices == {BasePrice + 2 * TickSize}
Quantities == {StepSize * i : i \in 1..NumQty}
ClockStep == max_trade_duration_hours
NaN == 0 - 1                        \* float('nan') as an ATR value
ATRs == {0, NaN, 2}                 \* 0 stands for atr = None and atr = 0.0

---------------------------------------------------------------------------
(* Dictionary helpers *)

Put(d, k, v) == [x \in DOMAIN d \cup {k} |-> IF x = k THEN v ELSE d[x]]
Del(d, k) == [x \in DOMAIN d \ {k} |-> d[x]]

---------------------------------------------------------------------------
(* ExitSignal, as far as the ledger and the claims read it *)

ExitSignal(symbol, exit_type, price, qty, reason, strategy) ==
    [symbol |-> symbol,
     exit_type |-> exit_type,
     exit_price |-> price,
     exit_quantity |-> qty,
     exit_reason |-> reason,
     pnl |-> IF strategy.position_type = "LONG"
             THEN (price - strategy.entry_price) * qty
             ELSE (strategy.entry_price - price) * qty]

(* A variant that keeps the trailing level and the partial-exit record a   *)
(* symbol already has, and starts a trailing level from the entry price    *)
create_exit_strategy_keep_state(em, symbol, position_type, entry_price, stop_loss, take_profit, trailing_enabled, clock) ==
    [active_exits |->
        Put(em.active_exits, symbol,
            [symbol |-> symbol,
             position_type |-> position_type,
             entry_price |-> entry_price,
             stop_loss |-> stop_loss,
             take_profit |-> take_profit,
             trailing_enabled |-> trailing_enabled,
             partial_exit_enabled |-> partial_exit_ratio_num > 0,
             partial_exit_target |->
                IF position_type = "LONG"
                THEN entry_price + (take_profit - entry_price) \div 2
                ELSE entry_price - (entry_price - take_profit) \div 2,
             time_based_exit |-> TRUE,
             entry_time |-> clock]),
     trailing_stops |->
        IF symbol \in DOMAIN em.trailing_stops THEN em.trailing_stops
        ELSE Put(em.trailing_stops, symbol, entry_price),
     partial_exits |->
        IF symbol \in DOMAIN em.partial_exits THEN em.partial_exits
        ELSE Put(em.partial_exits, symbol,
                 [executed |-> FALSE, quantity |-> 0, price |-> 0])]

(* ExitManager.create_exit_strategy *)
create_exit_strategy(em, symbol, position_type, entry_price, stop_loss, take_profit, trailing_enabled, clock) ==
    LET partial_exit_target ==
            IF position_type = "LONG"
            THEN entry_price + (take_profit - entry_price) \div 2
            ELSE entry_price - (entry_price - take_profit) \div 2
        strategy ==
            [symbol |-> symbol,
             position_type |-> position_type,
             entry_price |-> entry_price,
             stop_loss |-> stop_loss,
             take_profit |-> take_profit,
             trailing_enabled |-> trailing_enabled,
             partial_exit_enabled |-> partial_exit_ratio_num > 0,
             partial_exit_target |-> partial_exit_target,
             time_based_exit |-> TRUE,
             entry_time |-> clock]
    IN  [active_exits |-> Put(em.active_exits, symbol, strategy),
         trailing_stops |->
            IF trailing_enabled
            THEN Put(em.trailing_stops, symbol, stop_loss)
            ELSE em.trailing_stops,
         partial_exits |->
            IF strategy.partial_exit_enabled
            THEN Put(em.partial_exits, symbol,
                     [executed |-> FALSE, quantity |-> 0, price |-> 0])
            ELSE em.partial_exits]

(* ExitManager._check_stop_loss *)
check_stop_loss(symbol, current_price, current_quantity, strategy) ==
    IF strategy.position_type = "LONG"
    THEN IF current_price <= strategy.stop_loss
         THEN <<ExitSignal(symbol, "SL", current_price, current_quantity,
                           "Stop Loss triggered", strategy)>>
         ELSE <<>>
    ELSE IF current_price >= strategy.stop_loss
         THEN <<ExitSignal(symbol, "SL", current_price, current_quantity,
                           "Stop Loss triggered", strategy)>>
         ELSE <<>>

(* ExitManager._check_take_profit *)
check_take_profit(symbol, current_price, current_quantity, strategy) ==
    IF strategy.position_type = "LONG"
    THEN IF current_price >= strategy.take_profit
         THEN <<ExitSignal(symbol, "TP", current_price, current_quantity,
                           "Take Profit triggered", strategy)>>
         ELSE <<>>
    ELSE IF current_price <= strategy.take_profit
         THEN <<ExitSignal(symbol, "TP", current_price, current_quantity,
                           "Take Profit triggered", strategy)>>
         ELSE <<>>

(* ExitManager._check_partial_exit: the manager after the call, and the signal *)
check_partial_exit_unmarked(em, symbol, current_price, current_quantity) ==
    LET strategy == em.active_exits[symbol]
        hit == IF strategy.position_type = "LONG"
               THEN current_price >= strategy.partial_exit_target
               ELSE current_price <= strategy.partial_exit_target
        exit_quantity ==
            (current_quantity * partial_exit_ratio_num) \div partial_exit_ratio_den
    IN  IF symbol \notin DOMAIN em.partial_exits
           \/ em.partial_exits[symbol].executed
        THEN [em |-> em, signal |-> <<>>]
        ELSE IF hit
        THEN [em |-> [em EXCEPT
                        !.active_exits[symbol].stop_loss = strategy.entry_price],
              signal |-> <<ExitSignal(symbol, "PARTIAL", current_price,
                                      exit_quantity,
                                      "Partial exit at R1 target", strategy)>>]
        ELSE [em |-> em, signal |-> <<>>]

check_partial_exit(em, symbol, current_price, current_quantity) ==
    LET strategy == em.active_exits[symbol]
        hit == IF strategy.position_type = "LONG"
               THEN current_price >= strategy.partial_exit_target
               ELSE current_price <= strategy.partial_exit_target
        exit_quantity ==
            (current_quantity * partial_exit_ratio_num) \div partial_exit_ratio_den
    IN  IF symbol \notin DOMAIN em.partial_exits
           \/ em.partial_exits[symbol].executed
        THEN [em |-> em, signal |-> <<>>]
        ELSE IF hit
        THEN [em |-> [em EXCEPT
                        !.partial_exits[symbol] =
                            [executed |-> TRUE,
                             quantity |-> exit_quantity,
                             price |-> current_price],
                        !.active_exits[symbol].stop_loss = strategy.entry_price],
              signal |-> <<ExitSignal(symbol, "PARTIAL", current_price,
                                      exit_quantity,
                                      "Partial exit at R1 target", strategy)>>]
        ELSE [em |-> em, signal |-> <<>>]

(* ExitManager._check_trailing_stop.  A NaN candidate compares false with  *)
(* every level, so it never replaces the stored one.  Reading a missing    *)
(* trailing_stops entry raises KeyError, which the method turns into None. *)
check_trailing_stop_unguarded(em, symbol, current_price, current_quantity, atr) ==
    LET strategy == em.active_exits[symbol]
        long == strategy.position_type = "LONG"
        new_trailing_stop ==
            IF long THEN current_price - trailing_atr_multiplier * atr
                    ELSE current_price + trailing_atr_multiplier * atr
        moved == /\ symbol \in DOMAIN em.trailing_stops
                 /\ atr # NaN
        em1 == IF moved
               THEN [em EXCEPT
                        !.trailing_stops[symbol] = new_trailing_stop,
                        !.active_exits[symbol].stop_loss = new_trailing_stop]
               ELSE em
    IN  IF ~strategy.trailing_enabled
        THEN [em |-> em, signal |-> <<>>]
        ELSE IF symbol \notin DOMAIN em1.trailing_stops
        THEN [em |-> em1, signal |-> <<>>]
        ELSE IF (long /\ current_price <= em1.trailing_stops[symbol])
                \/ (~long /\ current_price >= em1.trailing_stops[symbol])
        THEN [em |-> em1,
              signal |-> <<ExitSignal(symbol, "TRAILING", current_price,
                                      current_quantity,
                                      "Trailing stop triggered", strategy)>>]
        ELSE [em |-> em1, signal |-> <<>>]

check_trailing_stop(em, symbol, current_price, current_quantity, atr) ==
    LET strategy == em.active_exits[symbol]
        long == strategy.position_type = "LONG"
        new_trailing_stop ==
            IF long THEN current_price - trailing_atr_multiplier * atr
                    ELSE current_price + trailing_atr_multiplier * atr
        moved == /\ symbol \in DOMAIN em.trailing_stops
                 /\ atr # NaN
                 /\ IF long
                    THEN new_trailing_stop > em.trailing_stops[symbol]
                    ELSE new_trailing_stop < em.trailing_stops[symbol]
        em1 == IF moved
               THEN [em EXCEPT
                        !.trailing_stops[symbol] = new_trailing_stop,
                        !.active_exits[symbol].stop_loss = new_trailing_stop]
               ELSE em
    IN  IF ~strategy.trailing_enabled
        THEN [em |-> em, signal |-> <<>>]
        ELSE IF symbol \notin DOMAIN em1.trailing_stops
        THEN [em |-> em1, signal |-> <<>>]
        ELSE IF (long /\ current_price <= em1.trailing_stops[symbol])
                \/ (~long /\ current_price >= em1.trailing_stops[symbol])
        THEN [em |-> em1,
              signal |-> <<ExitSignal(symbol, "TRAILING", current_price,
                                      current_quantity,
                                      "Trailing stop triggered", strategy)>>]
        ELSE [em |-> em1, signal |-> <<>>]

(* ExitManager._check_time_based_exit; clock is datetime.now() *)
check_time_based_exit(symbol, current_price, current_quantity, strategy, clock) ==
    IF ~strategy.time_based_exit
    THEN <<>>
    ELSE IF clock - strategy.entry_time >= max_trade_duration_hours
    THEN <<ExitSignal(symbol, "TIME", current_price, current_quantity,
                      "Time-based exit", strategy)>>
    ELSE <<>>

(* ExitManager.check_exit_signals: the manager after the call, and the list *)
check_exit_signals_no_priority(em, symbol, current_price, current_quantity, atr, clock) ==
    IF symbol \notin DOMAIN em.active_exits
    THEN [em |-> em, signals |-> <<>>]
    ELSE
    LET strategy == em.active_exits[symbol]
        sl == check_stop_loss(symbol, current_price, current_quantity, strategy)
        tp == check_take_profit(symbol, current_price, current_quantity, strategy)
        p == IF strategy.partial_exit_enabled
             THEN check_partial_exit(em, symbol, current_price, current_quantity)
             ELSE [em |-> em, signal |-> <<>>]
        t == IF p.em.active_exits[symbol].trailing_enabled /\ atr # 0
             THEN check_trailing_stop(p.em, symbol, current_price,
                                      current_quantity, atr)
             ELSE [em |-> p.em, signal |-> <<>>]
        time == check_time_based_exit(symbol, current_price, current_quantity,
                                      t.em.active_exits[symbol], clock)
    IN  [em |-> t.em, signals |-> sl \o tp \o p.signal \o t.signal \o time]

check_exit_signals(em, symbol, current_price, current_quantity, atr, clock) ==
    IF symbol \notin DOMAIN em.active_exits
    THEN [em |-> em, signals |-> <<>>]
    ELSE
    LET strategy == em.active_exits[symbol]
        sl == check_stop_loss(symbol, current_price, current_quantity, strategy)
        tp == check_take_profit(symbol, current_price, current_quantity, strategy)
        p == IF strategy.partial_exit_enabled
             THEN check_partial_exit(em, symbol, current_price, current_quantity)
             ELSE [em |-> em, signal |-> <<>>]
        t == IF p.em.active_exits[symbol].trailing_enabled /\ atr # 0
             THEN check_trailing_stop(p.em, symbol, current_price,
                                      current_quantity, atr)
             ELSE [em |-> p.em, signal |-> <<>>]
        time == check_time_based_exit(symbol, current_price, current_quantity,
                                      t.em.active_exits[symbol], clock)
    IN  IF sl # <<>> THEN [em |-> em, signals |-> sl]
        ELSE IF tp # <<>> THEN [em |-> em, signals |-> tp]
        ELSE [em |-> t.em, signals |-> p.signal \o t.signal \o time]

(* A variant that yields to the stop-loss check: it returns the signal of  *)
(* check_stop_loss when the stop is hit                                    *)
manual_exit_after_stop(em, symbol, current_price, current_quantity, reason) ==
    IF symbol \notin DOMAIN em.active_exits
    THEN <<>>
    ELSE IF check_stop_loss(symbol, current_price, current_quantity,
                            em.active_exits[symbol]) # <<>>
    THEN check_stop_loss(symbol, current_price, current_quantity,
                         em.active_exits[symbol])
    ELSE <<ExitSignal(symbol, "MANUAL", current_price, current_quantity,
                      reason, em.active_exits[symbol])>>

(* ExitManager.manual_exit *)
manual_exit(em, symbol, current_price, current_quantity, reason) ==
    IF symbol \notin DOMAIN em.active_exits
    THEN <<>>
    ELSE <<ExitSignal(symbol, "MANUAL", current_price, current_quantity,
                      reason, em.active_exits[symbol])>>

(* A variant that forgets the strategy and keeps the trailing level and   *)
(* the partial-exit record of the symbol                                   *)
remove_exit_strategy_keep_levels(em, symbol) ==
    [em EXCEPT !.active_exits = Del(em.active_exits, symbol)]

(* ExitManager.remove_exit_strategy *)
remove_exit_strategy(em, symbol) ==
    [active_exits |-> Del(em.active_exits, symbol),
     trailing_stops |-> Del(em.trailing_stops, symbol),
     partial_exits |-> Del(em.partial_exits, symbol)]

---------------------------------------------------------------------------
(* Money.  Amounts of quote currency are integers in units of 1/MoneyScale *)
(* of (price unit x quantity unit), the unit in which the fee and the      *)
(* funding of one hour are whole numbers; risk amounts carry a further     *)
(* factor max_risk_per_trade_den, the risk fraction being in percent.      *)

maker_fee_num == 2                 \* config.backtest.maker_fee = 0.0002
maker_fee_den == 10000
funding_interval_hours == 8        \* config.backtest.funding_interval_hours
max_risk_per_trade_den == 100
MoneyScale == maker_fee_den * funding_interval_hours
avg_funding_rate_num == 1          \* avg_funding_rate = 0.0001
avg_funding_rate_den == 10000
max_risk_per_trade_pct == 1        \* config.risk.max_risk_per_trade = 0.01
max_portfolio_risk_pct == 3        \* config.risk.max_portfolio_risk = 0.03
max_concurrent_positions == 5      \* config.risk.max_concurrent_positions
max_leverage_core == 15            \* config.risk.max_leverage_core
max_leverage_major == 6            \* config.risk.max_leverage_major
max_leverage_alt == 3              \* config.risk.max_leverage_alt
liquidation_buffer_atr_multiplier == 3   \* Z
liquidation_buffer_percent == 5          \* 0.05, in percent
sl_liquidation_buffer_atr == 2           \* Y
default_atr_percent == 2                 \* atr = entry_price * 0.02
default_maintenance_margin == 4          \* 0.004, in thousandths
fallback_liq_percent == 10               \* entry_price * 0.9, * 1.1
signal_stop_atr == 2               \* stop_loss = entry_price -+ 2 * atr
signal_take_atr == 3               \* take_profit = entry_price +- 3 * atr
BarHours == 1                      \* timeframe = '1h'

InitialEquity == 1600 * MoneyScale
RunSymbol == "BTCUSDT"
CoreSymbols == {"BTCUSDT", "ETHUSDT"}
MajorSymbols == {"SOLUSDT", "BNBUSDT", "XRPUSDT", "ADAUSDT", "AVAXUSDT",
                 "DOTUSDT"}
(* SymbolMetadata.maintenance_margin_tiers, rates in thousandths *)
MaintenanceMarginTiers ==
    <<[leverage |-> 1, notionalFloor |-> 0,
       notionalCap |-> 1500 * MoneyScale, maintenanceMarginRate |-> 5]>>

Min(a, b) == IF a <= b THEN a ELSE b
Max(a, b) == IF a >= b THEN a ELSE b

(* round(n / d) of Python 3 for d > 0: to nearest, ties to even *)
RoundHalfEven(n, d) ==
    LET q == n \div d
        r == n % d
    IN  IF 2 * r < d THEN q
        ELSE IF 2 * r > d THEN q + 1
        ELSE IF q % 2 = 0 THEN q ELSE q + 1

(* int(n / d) for d > 0: truncation towards zero *)
Trunc(n, d) == IF n >= 0 THEN n \div d ELSE 0 - ((0 - n) \div d)

---------------------------------------------------------------------------
(* Symbol metadata *)

(* SymbolMetadataManager.get_symbol_metadata: a cached symbol is served    *)
(* from metadata_cache; otherwise the metadata is fetched, which either    *)
(* succeeds (and is cached) or raises.  A lookup whose result is not a     *)
(* SymbolMetadata (the coroutine of an un-awaited call) makes the caller's *)
(* attribute access raise, which is the failing outcome as well.           *)
get_symbol_metadata(cache, symbol, fetch_ok) ==
    IF symbol \in cache THEN [found |-> TRUE, cache |-> cache]
    ELSE IF fetch_ok THEN [found |-> TRUE, cache |-> cache \cup {symbol}]
    ELSE [found |-> FALSE, cache |-> cache]

(* SymbolMetadataManager.classify_symbol, get_max_leverage_for_symbol *)
get_max_leverage_for_symbol(symbol) ==
    IF symbol \in CoreSymbols THEN max_leverage_core
    ELSE IF symbol \in MajorSymbols THEN max_leverage_major
    ELSE max_leverage_alt

(* SymbolMetadata.get_maintenance_margin; 0 when no tier matches *)
get_maintenance_margin(leverage, notional) ==
    LET hits == {k \in 1..Len(MaintenanceMarginTiers) :
                    /\ MaintenanceMarginTiers[k].leverage = leverage
                    /\ MaintenanceMarginTiers[k].notionalFloor <= notional
                    /\ notional <= MaintenanceMarginTiers[k].notionalCap}
    IN  IF hits = {} THEN 0
        ELSE MaintenanceMarginTiers[CHOOSE k \in hits :
                                      \A j \in hits : k <= j].maintenanceMarginRate

---------------------------------------------------------------------------
(* RiskManager *)

(* RiskManager._calculate_liquidation_price, as the fraction num / den.    *)
(* leverage = 0 raises ZeroDivisionError, which selects the fallback.      *)
calculate_liquidation_price(entry_price, direction, leverage, position_size_usdt) ==
    IF leverage = 0
    THEN [num |-> IF direction = "LONG"
                  THEN entry_price * (100 - fallback_liq_percent)
                  ELSE entry_price * (100 + fallback_liq_percent),
          den |-> 100]
    ELSE
    LET mm0 == get_maintenance_margin(leverage, position_size_usdt)
        maintenance_margin == IF mm0 = 0 THEN default_maintenance_margin ELSE mm0
    IN  [num |-> IF direction = "LONG"
                 THEN entry_price * (1000 * leverage - 1000
                                     + maintenance_margin * leverage)
                 ELSE entry_price * (1000 * leverage + 1000
                                     - maintenance_margin * leverage),
         den |-> 1000 * leverage]

(* RiskManager._validate_liquidation_buffer; liq and distance are fractions *)
validate_liquidation_buffer(entry_price, stop_loss, liq, distance) ==
    LET required_buffer == Max(liquidation_buffer_atr_multiplier
                                   * default_atr_percent,
                               liquidation_buffer_percent)
        sl_num == IF entry_price > stop_loss
                  THEN stop_loss * liq.den - liq.num
                  ELSE liq.num - stop_loss * liq.den
        required_sl_buffer == sl_liquidation_buffer_atr * default_atr_percent
    IN  IF 100 * distance.num < required_buffer * distance.den
        THEN [is_valid |-> FALSE, reason |-> "Distance to liquidation"]
        ELSE IF 100 * sl_num < required_sl_buffer * entry_price * liq.den
        THEN [is_valid |-> FALSE, reason |-> "Stop loss too close to liquidation"]
        ELSE [is_valid |-> TRUE, reason |-> "Valid"]

(* RiskManager.calculate_position_size.  metadata_found is the outcome of  *)
(* the metadata lookup; without metadata, with equal entry and stop, or    *)
(* with zero equity the body raises and the except branch answers.  Equity *)
(* stays positive in the runs modelled here.                               *)
calculate_position_size(symbol, entry_price, stop_loss, equity, metadata_found) ==
    IF ~metadata_found \/ entry_price = stop_loss \/ equity <= 0
    THEN [is_valid |-> FALSE,
          reason |-> IF ~metadata_found THEN "Error: metadata"
                     ELSE "Error: float division by zero",
          quantity |-> 0,
          position_size_usdt |-> 0, leverage |-> 0, risk_amount |-> 0]
    ELSE
    LET risk_amount == equity * max_risk_per_trade_pct
        long == entry_price > stop_loss
        sl_distance == IF long THEN entry_price - stop_loss
                               ELSE stop_loss - entry_price
        position_direction == IF long THEN "LONG" ELSE "SHORT"
        quantity1 == RoundHalfEven(risk_amount,
                                   MoneyScale * max_risk_per_trade_den
                                    * sl_distance * StepSize)
                     * StepSize
        size1 == quantity1 * entry_price * MoneyScale
        max_leverage == get_max_leverage_for_symbol(symbol)
        leverage == Min(Trunc(size1, equity), max_leverage)
        adjust == leverage * equity < size1
        quantity == IF adjust
                    THEN RoundHalfEven(equity * leverage,
                                       MoneyScale * entry_price * StepSize)
                         * StepSize
                    ELSE quantity1
        position_size_usdt == quantity * entry_price * MoneyScale
        liq == calculate_liquidation_price(entry_price, position_direction,
                                           leverage, position_size_usdt)
        distance == [num |-> IF long THEN entry_price * liq.den - liq.num
                                     ELSE liq.num - entry_price * liq.den,
                     den |-> entry_price * liq.den]
        v == validate_liquidation_buffer(entry_price, stop_loss, liq, distance)
    IN  [is_valid |-> v.is_valid, reason |-> v.reason, quantity |-> quantity,
         position_size_usdt |-> position_size_usdt, leverage |-> leverage,
         risk_amount |-> risk_amount]

(* RiskManager.check_portfolio_risk; the risk manager's own position table *)
(* is never written by the backtest and stays empty                        *)
check_portfolio_risk(equity, new_position_risk) ==
    LET within == IF equity > 0
                  THEN new_position_risk <= max_portfolio_risk_pct * equity
                  ELSE TRUE
    IN  within /\ 0 < max_concurrent_positions

---------------------------------------------------------------------------
(* RiskEngine (src/src/quant_futures/risk/engine.py).  Prices, ATR and     *)
(* equity are integers; a notional, a leverage and a liquidation price are *)
(* exact fractions [num, den] with den > 0.  Rates: risk_per_trade_pct in  *)
(* percent, maintMarginRatio in thousandths.                               *)

liq_buffer_pct_min_den == 50       \* RiskConfig.liq_buffer_pct_min = 0.02
atr_buffer_mult_entry == 3         \* RiskConfig.atr_buffer_mult_entry = 3.0
atr_buffer_mult_sl_num == 3        \* RiskConfig.atr_buffer_mult_sl = 1.5
atr_buffer_mult_sl_den == 2
default_lev_cap == 100             \* lev_cap = 100.0
default_mmr == 4                   \* mmr = 0.004
(* scripts/risk_sizing.py: vol_class_leverage_caps *)
VolClassLeverageCaps == [A |-> 15, B |-> 6, C |-> 3]

RECURSIVE GCD(_, _)
GCD(a, b) == IF b = 0 THEN a ELSE GCD(b, a % b)

(* The fraction n / d in lowest terms, for n >= 0 and d > 0 *)
Frac(n, d) == [num |-> n \div GCD(n, d), den |-> d \div GCD(n, d)]

FracLess(a, b) == a.num * b.den < b.num * a.den
FracFloor(a) == a.num \div a.den

(* RiskEngine._compute_exchange_liq_price *)
compute_exchange_liq_price(meta, direction, entry, leverage_param) ==
    IF direction = "long"
    THEN [num |-> entry * (leverage_param - 1) * (1000 - meta.mmr),
          den |-> leverage_param * 1000]
    ELSE [num |-> entry * (leverage_param + 1) * (1000 + meta.mmr),
          den |-> leverage_param * 1000]

(* RiskEngine._check_liq_buffer, for entry > 0.                            *)
(* cond1: dist_entry >= max(Z * atr / entry, min_pct), multiplied through  *)
(* by entry * liq.den * liq_buffer_pct_min_den;                            *)
(* cond2: dist_sl >= Y * atr / sl, multiplied through by sl * liq.den * 2; *)
(* with sl <= 0 the code compares 0 with Y * atr / 1e-9.                   *)
check_liq_buffer_first_fail(trade, liq_price) ==
    LET long == trade.direction = "long"
        entry_gap == IF long THEN trade.entry * liq_price.den - liq_price.num
                             ELSE liq_price.num - trade.entry * liq_price.den
        sl_gap == IF long THEN trade.sl * liq_price.den - liq_price.num
                          ELSE liq_price.num - trade.sl * liq_price.den
        cond1 == liq_buffer_pct_min_den * entry_gap
                    >= Max(liq_buffer_pct_min_den * atr_buffer_mult_entry
                                * trade.atr * liq_price.den,
                           trade.entry * liq_price.den)
        cond2 == IF trade.sl > 0
                 THEN atr_buffer_mult_sl_den * sl_gap
                        >= atr_buffer_mult_sl_num * trade.atr * liq_price.den
                 ELSE trade.atr <= 0
    IN  [passes |-> cond1 /\ cond2,
         reasons |-> IF ~cond1 THEN <<"entry_liq_buffer_fail">>
                     ELSE IF ~cond2 THEN <<"sl_liq_buffer_fail">>
                     ELSE <<"ok">>]

check_liq_buffer(trade, liq_price) ==
    LET long == trade.direction = "long"
        entry_gap == IF long THEN trade.entry * liq_price.den - liq_price.num
                             ELSE liq_price.num - trade.entry * liq_price.den
        sl_gap == IF long THEN trade.sl * liq_price.den - liq_price.num
                          ELSE liq_price.num - trade.sl * liq_price.den
        cond1 == liq_buffer_pct_min_den * entry_gap
                    >= Max(liq_buffer_pct_min_den * atr_buffer_mult_entry
                                * trade.atr * liq_price.den,
                           trade.entry * liq_price.den)
        cond2 == IF trade.sl > 0
                 THEN atr_buffer_mult_sl_den * sl_gap
                        >= atr_buffer_mult_sl_num * trade.atr * liq_price.den
                 ELSE trade.atr <= 0
        reasons == (IF ~cond1 THEN <<"entry_liq_buffer_fail">> ELSE <<>>)
                   \o (IF ~cond2 THEN <<"sl_liq_buffer_fail">> ELSE <<>>)
    IN  [passes |-> cond1 /\ cond2,
         reasons |-> IF reasons = <<>> THEN <<"ok">> ELSE reasons]

(* size_position, lines 77-84: the first validation and the deleveraging   *)
(* loop; iterations counts the passes through the loop body                *)
RECURSIVE deleverage_by_one(_, _, _, _)
deleverage_by_one(trade, meta, applied_lev_param, iterations) ==
    LET liq_price == compute_exchange_liq_price(meta, trade.direction,
                                                trade.entry, applied_lev_param)
        chk == check_liq_buffer(trade, liq_price)
    IN  IF ~chk.passes /\ applied_lev_param > 1
        THEN deleverage_by_one(trade, meta, Max(1, applied_lev_param - 1),
                               iterations + 1)
        ELSE [applied_lev_param |-> applied_lev_param, liq_price |-> liq_price,
              passes |-> chk.passes, reasons |-> chk.reasons,
              iterations |-> iterations]

(* A variant that drops to leverage parameter 1 on the first failure *)
RECURSIVE deleverage_to_one(_, _, _, _)
deleverage_to_one(trade, meta, applied_lev_param, iterations) ==
    LET liq_price == compute_exchange_liq_price(meta, trade.direction,
                                                trade.entry, applied_lev_param)
        chk == check_liq_buffer(trade, liq_price)
    IN  IF ~chk.passes /\ applied_lev_param > 1
        THEN deleverage_to_one(trade, meta, 1, iterations + 1)
        ELSE [applied_lev_param |-> applied_lev_param, liq_price |-> liq_price,
              passes |-> chk.passes, reasons |-> chk.reasons,
              iterations |-> iterations]

RECURSIVE deleverage(_, _, _, _)
deleverage(trade, meta, applied_lev_param, iterations) ==
    LET liq_price == compute_exchange_liq_price(meta, trade.direction,
                                                trade.entry, applied_lev_param)
        chk == check_liq_buffer(trade, liq_price)
    IN  IF ~chk.passes /\ applied_lev_param > 1
        THEN deleverage(trade, meta, Max(1, applied_lev_param \div 2),
                        iterations + 1)
        ELSE [applied_lev_param |-> applied_lev_param, liq_price |-> liq_price,
              passes |-> chk.passes, reasons |-> chk.reasons,
              iterations |-> iterations]

(* RiskEngine.size_position for entry > 0, equity_usdt > 0 and a known     *)
(* symbol.  The result carries, next to the fields of SizingResult, the    *)
(* number of passes through the loop and of calls of _check_liq_buffer.    *)
SizingResult(notional, quantity, effective_lev, applied_lev_param, passes, reasons, iterations, checks) ==
    [notional |-> notional, quantity |-> quantity,
     effective_leverage |-> effective_lev,
     applied_leverage_param |-> applied_lev_param,
     passes_liq_buffer |-> passes, reasons |-> reasons,
     iterations |-> iterations, checks |-> checks]

Zero == [num |-> 0, den |-> 1]

size_position(cfg, meta, trade) ==
    LET sl_dist == IF trade.entry > trade.sl THEN trade.entry - trade.sl
                                             ELSE trade.sl - trade.entry
        R_notional == Frac(cfg.equity_usdt * cfg.risk_per_trade_pct * trade.entry,
                           100 * sl_dist)
        R_lev == Frac(R_notional.num, R_notional.den * cfg.equity_usdt)
        lev_cap == IF trade.vol_class \in DOMAIN VolClassLeverageCaps
                   THEN VolClassLeverageCaps[trade.vol_class]
                   ELSE default_lev_cap
        capped == FracLess([num |-> lev_cap, den |-> 1], R_lev)
        notional == IF capped THEN [num |-> lev_cap * cfg.equity_usdt, den |-> 1]
                              ELSE R_notional
        effective_lev == IF capped THEN [num |-> lev_cap, den |-> 1] ELSE R_lev
        applied_lev_param == Min(IF effective_lev.num >= effective_lev.den
                                 THEN FracFloor(effective_lev) ELSE 1,
                                 meta.max_leverage)
        loop == deleverage(trade, meta, applied_lev_param, 0)
        \* lines 85-91: the fallback halves the notional and validates again
        \* against the liquidation price the loop ended with
        half_notional == Frac(notional.num, 2 * notional.den)
        half_lev == Frac(half_notional.num, half_notional.den * cfg.equity_usdt)
        again == check_liq_buffer(trade, loop.liq_price)
        final_notional == IF loop.passes THEN notional ELSE half_notional
        step == meta.step_size
    IN  IF sl_dist <= 0
        THEN SizingResult(Zero, 0, Zero, 1, FALSE, <<"invalid_sl_distance">>, 0, 0)
        ELSE SizingResult(
                final_notional,
                (final_notional.num \div (final_notional.den * trade.entry * step)) * step,
                IF loop.passes THEN effective_lev ELSE half_lev,
                IF ~loop.passes /\ half_lev.num < half_lev.den
                THEN 1 ELSE loop.applied_lev_param,
                IF loop.passes THEN TRUE ELSE again.passes,
                IF loop.passes THEN loop.reasons ELSE again.reasons,
                loop.iterations,
                loop.iterations + 1 + (IF loop.passes THEN 0 ELSE 1))

---------------------------------------------------------------------------
(* SignalEngine._create_signal: the levels of a proposal *)

create_signal(symbol, signal_type, entry_price, atr) ==
    [symbol |-> symbol,
     signal_type |-> signal_type,
     entry_price |-> entry_price,
     stop_loss |-> IF signal_type = "LONG"
                   THEN entry_price - signal_stop_atr * atr
                   ELSE entry_price + signal_stop_atr * atr,
     take_profit |-> IF signal_type = "LONG"
                     THEN entry_price + signal_take_atr * atr
                     ELSE entry_price - signal_take_atr * atr]

---------------------------------------------------------------------------
(* BacktestEngine.  The ledger is passed around as a record L.             *)

Ledger == [equity |-> current_equity,
           trades |-> trades,
           positions |-> current_positions,
           em |-> [active_exits |-> active_exits,
                   trailing_stops |-> trailing_stops,
                   partial_exits |-> partial_exits],
           cache |-> metadata_cache,
           funding_log |-> funding_log,
           opened |-> audit.opened,
           skipped |-> audit.skipped]

(* BacktestEngine._calculate_slippage.  slippage_factor is at most 0.001,  *)
(* so slippage_factor * random_factor * tick_size stays below one tick for *)
(* every random factor below 1000 and the floor max(., tick_size) decides. *)
calculate_slippage(price, quantity) == TickSize

(* BacktestEngine._calculate_fees *)
calculate_fees(notional_value) == (notional_value * maker_fee_num) \div maker_fee_den

(* BacktestEngine._calculate_funding_costs *)
calculate_funding_costs(positions, symbol, entry_time, current_time) ==
    IF symbol \in DOMAIN positions
    THEN (positions[symbol].entry_price * positions[symbol].quantity
            * MoneyScale * avg_funding_rate_num * (current_time - entry_time))
         \div (avg_funding_rate_den * funding_interval_hours)
    ELSE 0

(* A variant that leaves the position and its exit strategy in place, so  *)
(* that every signal of a list finds the position                          *)
execute_exit_keep_position(L, exit_signal, bar) ==
    LET symbol == exit_signal.symbol IN
    IF symbol \notin DOMAIN L.positions THEN L
    ELSE
    LET position == L.positions[symbol]
        slippage == calculate_slippage(bar.close, exit_signal.exit_quantity)
        fees == calculate_fees(exit_signal.exit_price * exit_signal.exit_quantity
                               * MoneyScale)
        funding_costs == calculate_funding_costs(L.positions, symbol,
                                                 position.entry_time, bar.time)
        exit_price == IF position.position_type = "LONG"
                      THEN bar.close - slippage
                      ELSE bar.close + slippage
        pnl == IF position.position_type = "LONG"
               THEN (exit_price - position.entry_price)
                        * exit_signal.exit_quantity * MoneyScale
               ELSE (position.entry_price - exit_price)
                        * exit_signal.exit_quantity * MoneyScale
        trade == [symbol |-> symbol,
                  entry_time |-> position.entry_time,
                  exit_time |-> bar.time,
                  entry_price |-> position.entry_price,
                  exit_price |-> exit_price,
                  quantity |-> exit_signal.exit_quantity,
                  position_type |-> position.position_type,
                  pnl |-> pnl,
                  fees |-> position.fees_paid + fees,
                  funding_costs |-> funding_costs,
                  slippage |-> position.slippage + slippage,
                  exit_reason |-> exit_signal.exit_reason,
                  exit_type |-> exit_signal.exit_type]
    IN  [L EXCEPT
            !.trades = Append(L.trades, trade),
            !.equity = L.equity + pnl - fees - funding_costs]

(* BacktestEngine._execute_exit.  Reading the position of a symbol that   *)
(* has none raises KeyError, which the method logs and swallows.           *)
execute_exit(L, exit_signal, bar) ==
    LET symbol == exit_signal.symbol IN
    IF symbol \notin DOMAIN L.positions THEN L
    ELSE
    LET position == L.positions[symbol]
        slippage == calculate_slippage(bar.close, exit_signal.exit_quantity)
        fees == calculate_fees(exit_signal.exit_price * exit_signal.exit_quantity
                               * MoneyScale)
        funding_costs == calculate_funding_costs(L.positions, symbol,
                                                 position.entry_time, bar.time)
        exit_price == IF position.position_type = "LONG"
                      THEN bar.close - slippage
                      ELSE bar.close + slippage
        pnl == IF position.position_type = "LONG"
               THEN (exit_price - position.entry_price)
                        * exit_signal.exit_quantity * MoneyScale
               ELSE (position.entry_price - exit_price)
                        * exit_signal.exit_quantity * MoneyScale
        trade == [symbol |-> symbol,
                  entry_time |-> position.entry_time,
                  exit_time |-> bar.time,
                  entry_price |-> position.entry_price,
                  exit_price |-> exit_price,
                  quantity |-> exit_signal.exit_quantity,
                  position_type |-> position.position_type,
                  pnl |-> pnl,
                  fees |-> position.fees_paid + fees,
                  funding_costs |-> funding_costs,
                  slippage |-> position.slippage + slippage,
                  exit_reason |-> exit_signal.exit_reason,
                  exit_type |-> exit_signal.exit_type]
    IN  [L EXCEPT
            !.trades = Append(L.trades, trade),
            !.equity = L.equity + pnl - fees - funding_costs,
            !.positions = Del(L.positions, symbol),
            !.em = remove_exit_strategy(L.em, symbol),
            !.funding_log =
                [open |-> Del(L.funding_log.open, symbol),
                 closed |-> Append(L.funding_log.closed,
                    [deducted |-> L.funding_log.open[symbol] + funding_costs,
                     entry_price |-> position.entry_price,
                     quantity |-> position.quantity,
                     entry_time |-> position.entry_time,
                     exit_time |-> bar.time])]]

RECURSIVE execute_exits(_, _, _)
execute_exits(L, exit_signals, bar) ==
    IF exit_signals = <<>> THEN L
    ELSE execute_exits(execute_exit(L, Head(exit_signals), bar),
                       Tail(exit_signals), bar)

(* BacktestEngine._check_exits: the ledger after the call, and the list    *)
(* check_exit_signals returned                                             *)
check_exits(L, symbol, bar, clock) ==
    IF symbol \notin DOMAIN L.positions
    THEN [L |-> L, called |-> FALSE, signals |-> <<>>]
    ELSE
    LET position == L.positions[symbol]
        r == check_exit_signals(L.em, symbol, bar.close, position.quantity,
                                bar.atr, clock)
    IN  [L |-> execute_exits([L EXCEPT !.em = r.em], r.signals, bar),
         called |-> TRUE,
         signals |-> r.signals]

(* A variant that records the position and its exit strategy before it    *)
(* looks at the sizing result                                              *)
execute_signal_record_first(L, signal, bar, fetch_ok, clock) ==
    LET symbol == signal.symbol
        current_price == bar.close
        lookup == get_symbol_metadata(L.cache, symbol, fetch_ok)
        sizing == calculate_position_size(symbol, signal.entry_price,
                                          signal.stop_loss, L.equity,
                                          lookup.found)
        slippage == calculate_slippage(current_price, sizing.quantity)
        fees == calculate_fees(sizing.position_size_usdt)
        entry_price == IF signal.signal_type = "LONG"
                       THEN current_price + slippage
                       ELSE current_price - slippage
        L1 == [L EXCEPT
                !.cache = lookup.cache,
                !.positions = Put(L.positions, symbol,
                    [entry_time |-> bar.time,
                     entry_price |-> entry_price,
                     quantity |-> sizing.quantity,
                     position_type |-> signal.signal_type,
                     stop_loss |-> signal.stop_loss,
                     take_profit |-> signal.take_profit,
                     fees_paid |-> fees,
                     slippage |-> slippage]),
                !.em = create_exit_strategy(L.em, symbol, signal.signal_type,
                                            entry_price, signal.stop_loss,
                                            signal.take_profit, TRUE, clock),
                !.funding_log.open = Put(L.funding_log.open, symbol, 0)]
    IN  IF ~sizing.is_valid
        THEN [L1 EXCEPT !.skipped = L.skipped + 1]
        ELSE IF ~check_portfolio_risk(L.equity, sizing.risk_amount)
        THEN [L1 EXCEPT !.skipped = L.skipped + 1]
        ELSE [L1 EXCEPT !.equity = L.equity - fees,
                        !.opened = L.opened + 1]

(* BacktestEngine._execute_signal *)
execute_signal(L, signal, bar, fetch_ok, clock) ==
    LET symbol == signal.symbol
        current_price == bar.close
        lookup == get_symbol_metadata(L.cache, symbol, fetch_ok)
        sizing == calculate_position_size(symbol, signal.entry_price,
                                          signal.stop_loss, L.equity,
                                          lookup.found)
        L1 == [L EXCEPT !.cache = lookup.cache]
        slippage == calculate_slippage(current_price, sizing.quantity)
        fees == calculate_fees(sizing.position_size_usdt)
        entry_price == IF signal.signal_type = "LONG"
                       THEN current_price + slippage
                       ELSE current_price - slippage
    IN  IF ~sizing.is_valid
        THEN [L1 EXCEPT !.skipped = L.skipped + 1]
        ELSE IF ~check_portfolio_risk(L.equity, sizing.risk_amount)
        THEN [L1 EXCEPT !.skipped = L.skipped + 1]
        ELSE [L1 EXCEPT
                !.positions = Put(L.positions, symbol,
                    [entry_time |-> bar.time,
                     entry_price |-> entry_price,
                     quantity |-> sizing.quantity,
                     position_type |-> signal.signal_type,
                     stop_loss |-> signal.stop_loss,
                     take_profit |-> signal.take_profit,
                     fees_paid |-> fees,
                     slippage |-> slippage]),
                !.em = create_exit_strategy(L.em, symbol, signal.signal_type,
                                            entry_price, signal.stop_loss,
                                            signal.take_profit, TRUE, clock),
                !.equity = L.equity - fees,
                !.funding_log.open = Put(L.funding_log.open, symbol, 0),
                !.opened = L.opened + 1]

(* run_backtest, "Execute signals": the loop over the filtered signals.    *)
(* fails holds the indexes of the signals whose metadata fetch raises.     *)
RECURSIVE execute_signals_unguarded(_, _, _, _, _, _, _)
execute_signals_unguarded(L, symbol, signals, k, bar, fails, clock) ==
    IF k > Len(signals) THEN L
    ELSE execute_signals_unguarded(
            execute_signal(L, signals[k], bar, k \notin fails, clock),
            symbol, signals, k + 1, bar, fails, clock)

RECURSIVE execute_signals(_, _, _, _, _, _, _)
execute_signals(L, symbol, signals, k, bar, fails, clock) ==
    IF k > Len(signals) THEN L
    ELSE execute_signals(
            IF symbol \notin DOMAIN L.positions
            THEN execute_signal(L, signals[k], bar, k \notin fails, clock)
            ELSE L,
            symbol, signals, k + 1, bar, fails, clock)

(* A variant that charges the funding rate on the equity when the symbol  *)
(* has no position                                                         *)
apply_funding_costs_unguarded(L, symbol, current_time) ==
    IF symbol \in DOMAIN L.positions
    THEN LET funding_cost ==
                calculate_funding_costs(L.positions, symbol,
                                        L.positions[symbol].entry_time,
                                        current_time)
         IN  [L EXCEPT
                !.equity = L.equity - funding_cost,
                !.funding_log.open[symbol] =
                    L.funding_log.open[symbol] + funding_cost]
    ELSE [L EXCEPT !.equity = L.equity - (L.equity * avg_funding_rate_num)
                                            \div avg_funding_rate_den]

(* BacktestEngine._apply_funding_costs *)
apply_funding_costs(L, symbol, current_time) ==
    IF symbol \in DOMAIN L.positions
    THEN LET funding_cost ==
                calculate_funding_costs(L.positions, symbol,
                                        L.positions[symbol].entry_time,
                                        current_time)
         IN  [L EXCEPT
                !.equity = L.equity - funding_cost,
                !.funding_log.open[symbol] =
                    L.funding_log.open[symbol] + funding_cost]
    ELSE L

(* A variant that leaves the open positions as they are *)
close_all_positions_none(L, symbols, last_bar) == L

(* BacktestEngine._close_all_positions *)
RECURSIVE close_all_positions(_, _, _)
close_all_positions(L, symbols, last_bar) ==
    IF symbols = {} THEN L
    ELSE
    LET symbol == CHOOSE x \in symbols : TRUE
        position == L.positions[symbol]
        exit_signal == manual_exit(L.em, symbol, last_bar.close,
                                   position.quantity, "Backtest end")
    IN  close_all_positions(execute_exits(L, exit_signal, last_bar),
                            symbols \ {symbol}, last_bar)

---------------------------------------------------------------------------
(* Inputs of a run *)

MaxBars == 3
MaxSignals == 2

Closes == {BasePrice, BasePrice + 2 * TickSize, BasePrice + 4 * TickSize,
           BasePrice + 5 * TickSize}
BarATRs == {0, 2}
SignalEntries == {BasePrice, BasePrice + 2 * TickSize}
SignalATRs == {2}
(* a bar is narrow (low = high = close) or spans the whole price range *)
Bars(time) ==
    {[time |-> time, close |-> c, atr |-> a, low |-> c, high |-> c] :
        c \in Closes, a \in BarATRs}
    \cup
    {[time |-> time, close |-> c, atr |-> a,
      low |-> BasePrice - 3 * TickSize, high |-> BasePrice + 8 * TickSize] :
        c \in Closes, a \in BarATRs}
Signals == {create_signal(RunSymbol, t, e, a) :
                t \in {"LONG", "SHORT"}, e \in SignalEntries, a \in SignalATRs}
SignalLists == UNION {[1..n -> Signals] : n \in 0..MaxSignals}
NoBar == [time |-> 0, close |-> 0, atr |-> 0, low |-> 0, high |-> 0]

---------------------------------------------------------------------------
(* State machine *)

EM == [active_exits |-> active_exits,
       trailing_stops |-> trailing_stops,
       partial_exits |-> partial_exits]

SetEM(em) ==
    /\ active_exits' = em.active_exits
    /\ trailing_stops' = em.trailing_stops
    /\ partial_exits' = em.partial_exits

(* The ledger after a step of the run.  signals is the list returned by   *)
(* check_exit_signals in that step; a strategy created in the step starts  *)
(* its PARTIAL count at zero.                                              *)
SetLedger(L, signals) ==
    /\ current_equity' = L.equity
    /\ trades' = L.trades
    /\ current_positions' = L.positions
    /\ SetEM(L.em)
    /\ metadata_cache' = L.cache
    /\ funding_log' = L.funding_log
    /\ partial_count' =
        [s \in DOMAIN L.em.active_exits |->
            IF s \in DOMAIN partial_count /\ L.opened = audit.opened
            THEN partial_count[s]
                 + Cardinality({k \in 1..Len(signals) :
                                    /\ signals[k].symbol = s
                                    /\ signals[k].exit_type = "PARTIAL"})
            ELSE 0]

NoCall == [op |-> "none"]

(* The record of a check_exit_signals call: its inputs, the stop and the   *)
(* trailing level it found, and the list it returned                       *)
CheckCall(em, symbol, current_price, current_quantity, atr, signals) ==
    [op |-> "check", symbol |-> symbol, price |-> current_price,
     quantity |-> current_quantity,
     stop_before |-> IF symbol \in DOMAIN em.active_exits
                     THEN <<em.active_exits[symbol].stop_loss>> ELSE <<>>,
     trailing_before |-> IF symbol \in DOMAIN em.trailing_stops
                         THEN <<em.trailing_stops[symbol]>> ELSE <<>>,
     signals |-> signals]

CountPartials(count, signals) ==
    [s \in DOMAIN count |->
        count[s] + Cardinality({k \in 1..Len(signals) :
                                    /\ signals[k].symbol = s
                                    /\ signals[k].exit_type = "PARTIAL"})]

(* BacktestEngine.__init__, ExitManager.__init__ *)
Init ==
    /\ active_exits = <<>>
    /\ trailing_stops = <<>>
    /\ partial_exits = <<>>
    /\ now = 0
    /\ lastCall = NoCall
    /\ current_equity = InitialEquity
    /\ trades = <<>>
    /\ equity_curve = <<>>
    /\ current_positions = <<>>
    /\ metadata_cache = {}
    /\ pc = "idle"
    /\ bar_index = 0 - 1
    /\ current_bar = NoBar
    /\ funding_log = [open |-> <<>>, closed |-> <<>>]
    /\ partial_count = <<>>
    /\ audit = [opened |-> 0, signals |-> <<>>, skipped |-> 0]

(* The exit manager driven by an arbitrary caller *)

CreateExitStrategy ==
    \E symbol \in Symbols, position_type \in {"LONG", "SHORT"},
       entry_price \in EntryPrices, stop_loss \in Prices, take_profit \in Prices,
       trailing_enabled \in BOOLEAN :
        /\ SetEM(create_exit_strategy(EM, symbol, position_type, entry_price,
                                      stop_loss, take_profit, trailing_enabled,
                                      now))
        /\ lastCall' = [op |-> "create", symbol |-> symbol]
        /\ partial_count' = Put(partial_count, symbol, 0)
        /\ UNCHANGED <<now, ledgerVars>>

CheckExitSignals ==
    \E symbol \in Symbols, current_price \in Prices,
       current_quantity \in Quantities, atr \in ATRs :
        LET r == check_exit_signals(EM, symbol, current_price,
                                    current_quantity, atr, now)
        IN  /\ SetEM(r.em)
            /\ lastCall' = CheckCall(EM, symbol, current_price,
                                     current_quantity, atr, r.signals)
            /\ partial_count' = CountPartials(partial_count, r.signals)
            /\ UNCHANGED <<now, ledgerVars>>

ManualExit ==
    \E symbol \in Symbols, current_price \in Prices,
       current_quantity \in Quantities :
        /\ lastCall' = [op |-> "manual", symbol |-> symbol,
                        price |-> current_price,
                        quantity |-> current_quantity,
                        signals |-> manual_exit(EM, symbol, current_price,
                                                current_quantity, "Manual exit")]
        /\ UNCHANGED <<emVars, now, ledgerVars, partial_count>>

RemoveExitStrategy ==
    \E symbol \in Symbols :
        /\ SetEM(remove_exit_strategy(EM, symbol))
        /\ lastCall' = [op |-> "remove", symbol |-> symbol]
        /\ partial_count' = Del(partial_count, symbol)
        /\ UNCHANGED <<now, ledgerVars>>

(* The wall clock read by datetime.now() advances between calls *)
Tick ==
    /\ pc \in {"idle", "exits"}
    /\ now + ClockStep <= MaxTicks * ClockStep
    /\ now' = now + ClockStep
    /\ lastCall' = NoCall
    /\ UNCHANGED <<emVars, ledgerVars, partial_count>>

NextExit ==
    \/ CreateExitStrategy
    \/ CheckExitSignals
    \/ ManualExit
    \/ RemoveExitStrategy
    \/ Tick

SpecExit == Init /\ [][NextExit]_vars

(* run_backtest *)

(* lines 103-107: the run starts from a fresh ledger *)
StartBacktest ==
    /\ pc = "idle"
    /\ current_equity' = InitialEquity
    /\ equity_curve' = <<>>
    /\ trades' = <<>>
    /\ current_positions' = <<>>
    /\ pc' = "bar"
    /\ UNCHANGED <<emVars, now, lastCall, metadata_cache, bar_index,
                   current_bar, funding_log, partial_count, audit>>

(* A variant that keeps one snapshot and overwrites it on every bar *)
append_snapshot_overwrite(curve, current_time, equity, positions) ==
    <<[timestamp |-> current_time, equity |-> equity,
       open_positions |-> Cardinality(DOMAIN positions)]>>

(* lines 114-118: "Update equity curve" *)
append_snapshot(curve, current_time, equity, positions) ==
    Append(curve, [timestamp |-> current_time, equity |-> equity,
                   open_positions |-> Cardinality(DOMAIN positions)])

(* lines 110-119: the next bar is read and the snapshot appended *)
BarStart ==
    /\ pc = "bar"
    /\ bar_index + 1 < MaxBars
    /\ \E bar \in Bars((bar_index + 1) * BarHours) :
        /\ current_bar' = bar
        /\ equity_curve' = append_snapshot(equity_curve, bar.time,
                                           current_equity, current_positions)
    /\ bar_index' = bar_index + 1
    /\ lastCall' = NoCall
    /\ audit' = [audit EXCEPT !.signals = <<>>]
    /\ pc' = "exits"
    /\ UNCHANGED <<emVars, now, current_equity, trades, current_positions,
                   metadata_cache, funding_log, partial_count>>

(* line 122 *)
CheckExits ==
    /\ pc = "exits"
    /\ LET r == check_exits(Ledger, RunSymbol, current_bar, now)
       IN  /\ SetLedger(r.L, r.signals)
           /\ lastCall' = IF r.called
                          THEN CheckCall(EM, RunSymbol, current_bar.close,
                                         current_positions[RunSymbol].quantity,
                                         current_bar.atr, r.signals)
                          ELSE NoCall
    /\ pc' = "signals"
    /\ UNCHANGED <<now, equity_curve, bar_index, current_bar, audit>>

(* lines 125-138.  A fetch can fail only while the symbol is not cached. *)
ExecuteSignals ==
    /\ pc = "signals"
    /\ \E signals \in IF bar_index > 0 THEN SignalLists ELSE {<<>>},
          fails \in SUBSET (1..MaxSignals) :
        /\ \A k \in fails : k <= Len(signals) /\ RunSymbol \notin metadata_cache
        /\ LET L == execute_signals(Ledger, RunSymbol, signals, 1,
                                    current_bar, fails, now)
           IN  /\ SetLedger(L, <<>>)
               /\ audit' = [opened |-> L.opened, signals |-> signals,
                            skipped |-> L.skipped]
    /\ pc' = "funding"
    /\ UNCHANGED <<now, lastCall, equity_curve, bar_index, current_bar>>

(* line 141; the bar sequence ends after any bar *)
ApplyFundingCosts ==
    /\ pc = "funding"
    /\ SetLedger(apply_funding_costs(Ledger, RunSymbol, current_bar.time), <<>>)
    /\ \/ pc' = "bar" /\ bar_index + 1 < MaxBars
       \/ pc' = "closing"
    /\ audit' = [audit EXCEPT !.signals = <<>>, !.skipped = 0]
    /\ UNCHANGED <<now, lastCall, equity_curve, bar_index, current_bar>>

(* line 144 *)
CloseAllPositions ==
    /\ pc = "closing"
    /\ SetLedger(close_all_positions(Ledger, DOMAIN current_positions,
                                     current_bar), <<>>)
    /\ pc' = "done"
    /\ UNCHANGED <<now, lastCall, equity_curve, bar_index, current_bar, audit>>

Next ==
    \/ StartBacktest
    \/ BarStart
    \/ CheckExits
    \/ ExecuteSignals
    \/ ApplyFundingCosts
    \/ CloseAllPositions
    \/ Tick

Spec == Init /\ [][Next]_vars

(* The two sizers applied to one planned input each.  The planned input   *)
(* is held in lastCall; the call replaces it by the input and the result.  *)

SizerEquities == {10, 100}
SizerRiskPcts == {1, 10}
SizerEntries == {0, 100, 200}
SizerStopDistances == {0, 1, 4, 120}
SizerATRs == {0, 10, 20, 60}
SizerVolClasses == {"A", "C", "X"}
SizerMaxLeverages == {1, 5, 125}
SizerMMRs == {default_mmr, 10}
SizerSteps == {1, 2}

PlannedTrades ==
    { [op |-> "plan_trade",
       cfg |-> [equity_usdt |-> e, risk_per_trade_pct |-> r],
       meta |-> [max_leverage |-> ml, step_size |-> st, mmr |-> m],
       trade |-> [direction |-> d, entry |-> en,
                  sl |-> IF d = "long" THEN en - sd ELSE en + sd,
                  atr |-> a, vol_class |-> vc]] :
        e \in SizerEquities, r \in SizerRiskPcts, ml \in SizerMaxLeverages,
        st \in SizerSteps, m \in SizerMMRs, d \in {"long", "short"},
        en \in SizerEntries, sd \in SizerStopDistances, a \in SizerATRs,
        vc \in SizerVolClasses }

ManagerEntries == {290, 396, 400}
ManagerStopOffsets == {0 - 10, 0 - 5, 0 - 2, 0, 2, 4, 5}
ManagerEquities == {InitialEquity, InitialEquity \div 4}

PlannedSizings ==
    { [op |-> "plan_sizing", symbol |-> sym, entry_price |-> en,
       stop_loss |-> en + off, equity |-> e, metadata_found |-> f] :
        sym \in Symbols, en \in ManagerEntries, off \in ManagerStopOffsets,
        e \in ManagerEquities, f \in BOOLEAN }

InitSizer ==
    /\ active_exits = <<>>
    /\ trailing_stops = <<>>
    /\ partial_exits = <<>>
    /\ now = 0
    /\ lastCall \in PlannedTrades \cup PlannedSizings
    /\ current_equity = InitialEquity
    /\ trades = <<>>
    /\ equity_curve = <<>>
    /\ current_positions = <<>>
    /\ metadata_cache = {}
    /\ pc = "idle"
    /\ bar_index = 0 - 1
    /\ current_bar = NoBar
    /\ funding_log = [open |-> <<>>, closed |-> <<>>]
    /\ partial_count = <<>>
    /\ audit = [opened |-> 0, signals |-> <<>>, skipped |-> 0]

(* With entry = 0 and sl # 0 the division of line 62 raises                *)
(* ZeroDivisionError, which size_position does not catch.                  *)
SizePosition ==
    /\ lastCall.op = "plan_trade"
    /\ lastCall' = IF lastCall.trade.entry = 0 /\ lastCall.trade.sl # 0
                   THEN [op |-> "raised", error |-> "ZeroDivisionError",
                         cfg |-> lastCall.cfg, meta |-> lastCall.meta,
                         trade |-> lastCall.trade]
                   ELSE [op |-> "size_position", cfg |-> lastCall.cfg,
                         meta |-> lastCall.meta, trade |-> lastCall.trade,
                         result |-> size_position(lastCall.cfg, lastCall.meta,
                                                  lastCall.trade)]
    /\ UNCHANGED <<emVars, ledgerVars, now, partial_count>>

CalculatePositionSize ==
    /\ lastCall.op = "plan_sizing"
    /\ lastCall' = [op |-> "calculate_position_size",
                    symbol |-> lastCall.symbol,
                    entry_price |-> lastCall.entry_price,
                    stop_loss |-> lastCall.stop_loss,
                    equity |-> lastCall.equity,
                    metadata_found |-> lastCall.metadata_found,
                    result |-> calculate_position_size(
                                    lastCall.symbol, lastCall.entry_price,
                                    lastCall.stop_loss, lastCall.equity,
                                    lastCall.metadata_found)]
    /\ UNCHANGED <<emVars, ledgerVars, now, partial_count>>

NextSizer ==
    \/ SizePosition
    \/ CalculatePositionSize

SpecSizer == InitSizer /\ [][NextSizer]_vars

---------------------------------------------------------------------------
(* Properties of the exit state machine, checked under SpecExit *)

StopLossHit(strategy, price) ==
    IF strategy.position_type = "LONG"
    THEN price <= strategy.stop_loss
    ELSE price >= strategy.stop_loss

TakeProfitHit(strategy, price) ==
    IF strategy.position_type = "LONG"
    THEN price >= strategy.take_profit
    ELSE price <= strategy.take_profit

PartialTargetHit(strategy, price) ==
    IF strategy.position_type = "LONG"
    THEN price >= strategy.partial_exit_target
    ELSE price <= strategy.partial_exit_target

HasType(signals, exit_type) ==
    \E k \in 1..Len(signals) : signals[k].exit_type = exit_type

(* C1: a check_exit_signals call on a symbol with an active strategy whose *)
(* stop-loss condition holds returns exactly one signal, of type SL, for   *)
(* the full quantity given, and changes neither the trailing level, nor    *)
(* the partial-exit record, nor the stop.                                  *)
C1_StopLossPreempts ==
    [][(/\ lastCall'.op = "check"
        /\ lastCall'.symbol \in DOMAIN active_exits
        /\ StopLossHit(active_exits[lastCall'.symbol], lastCall'.price))
       => (/\ Len(lastCall'.signals) = 1
           /\ lastCall'.signals[1].exit_type = "SL"
           /\ lastCall'.signals[1].exit_quantity = lastCall'.quantity
           /\ trailing_stops' = trailing_stops
           /\ partial_exits' = partial_exits
           /\ active_exits'[lastCall'.symbol].stop_loss
                = active_exits[lastCall'.symbol].stop_loss)]_vars

(* C1 witness: a call answered by SL alone although the take-profit, the   *)
(* partial target and the time stop were due as well, trailing enabled     *)
C1_Witness ==
    /\ lastCall.op = "check"
    /\ HasType(lastCall.signals, "SL")
    /\ lastCall.symbol \in DOMAIN active_exits
    /\ LET strategy == active_exits[lastCall.symbol]
       IN  /\ TakeProfitHit(strategy, lastCall.price)
           /\ PartialTargetHit(strategy, lastCall.price)
           /\ ~partial_exits[lastCall.symbol].executed
           /\ strategy.trailing_enabled
           /\ now - strategy.entry_time >= max_trade_duration_hours

(* C3: over check_exit_signals calls the stored trailing level never       *)
(* decreases for a LONG and never increases for a SHORT.                   *)
C3_TrailingMonotone ==
    [][\A s \in Symbols :
        (/\ lastCall'.op = "check"
         /\ s \in DOMAIN trailing_stops
         /\ s \in DOMAIN active_exits)
        => (/\ s \in DOMAIN trailing_stops'
            /\ IF active_exits[s].position_type = "LONG"
               THEN trailing_stops'[s] >= trailing_stops[s]
               ELSE trailing_stops'[s] <= trailing_stops[s])]_vars

(* C3 witness: a call that raised the level of a LONG and moved the stop   *)
(* up with it                                                              *)
C3_Witness ==
    /\ lastCall.op = "check"
    /\ lastCall.symbol \in DOMAIN active_exits
    /\ lastCall.symbol \in DOMAIN trailing_stops
    /\ active_exits[lastCall.symbol].position_type = "LONG"
    /\ Len(lastCall.trailing_before) = 1
    /\ lastCall.trailing_before[1] < trailing_stops[lastCall.symbol]
    /\ active_exits[lastCall.symbol].stop_loss = trailing_stops[lastCall.symbol]

(* C7: between create_exit_strategy and remove_exit_strategy at most one   *)
(* PARTIAL signal is returned, and its quantity is partial_exit_ratio      *)
(* times the quantity given to the call.                                   *)
C7_PartialOnce ==
    /\ \A s \in DOMAIN partial_count : partial_count[s] <= 1
    /\ lastCall.op = "check" =>
        \A k \in 1..Len(lastCall.signals) :
            lastCall.signals[k].exit_type = "PARTIAL" =>
                lastCall.signals[k].exit_quantity * partial_exit_ratio_den
                    = lastCall.quantity * partial_exit_ratio_num

(* C7 witness: a call at or beyond the partial target, after the PARTIAL   *)
(* signal was given by an earlier call, which returns nothing              *)
C7_Witness ==
    /\ lastCall.op = "check"
    /\ lastCall.symbol \in DOMAIN partial_count
    /\ partial_count[lastCall.symbol] = 1
    /\ ~HasType(lastCall.signals, "PARTIAL")
    /\ PartialTargetHit(active_exits[lastCall.symbol], lastCall.price)
    /\ ~StopLossHit(active_exits[lastCall.symbol], lastCall.price)
    /\ ~TakeProfitHit(active_exits[lastCall.symbol], lastCall.price)

(* C8: once a PARTIAL signal has been returned for a position, its stop is *)
(* at break-even or tighter on return from that call and from every later  *)
(* call: stop_loss >= entry_price for a LONG, <= entry_price for a SHORT.  *)
C8_BreakEvenAfterPartial ==
    \A s \in DOMAIN active_exits :
        (s \in DOMAIN partial_exits /\ partial_exits[s].executed)
        => IF active_exits[s].position_type = "LONG"
           THEN active_exits[s].stop_loss >= active_exits[s].entry_price
           ELSE active_exits[s].stop_loss <= active_exits[s].entry_price

---------------------------------------------------------------------------
(* Properties of the backtest run, checked under Spec *)

LastTrade == trades[Len(trades)]

RECURSIVE NetOfTrades(_)
NetOfTrades(ts) ==
    IF ts = <<>> THEN 0
    ELSE Head(ts).pnl - Head(ts).fees - Head(ts).funding_costs
         + NetOfTrades(Tail(ts))

(* C2: during bar replay, a LONG position whose bar has low <= stop and    *)
(* high >= take-profit leaves that bar through a stop-loss exit priced at  *)
(* or below the stop, whatever the close of the bar.                       *)
C2_WideBarExitsAtStop ==
    [][(/\ pc = "exits" /\ pc' = "signals"
        /\ RunSymbol \in DOMAIN current_positions
        /\ RunSymbol \in DOMAIN active_exits
        /\ current_positions[RunSymbol].position_type = "LONG"
        /\ current_positions[RunSymbol].quantity > 0
        /\ current_bar.low <= active_exits[RunSymbol].stop_loss
        /\ current_bar.high >= active_exits[RunSymbol].take_profit)
       => (/\ Len(trades') = Len(trades) + 1
           /\ trades'[Len(trades')].exit_type = "SL"
           /\ trades'[Len(trades')].exit_price
                <= active_exits[RunSymbol].stop_loss)]_vars

(* C4: when the run has processed its bars and closed all positions,       *)
(* current_equity = initial_equity + sum(pnl) - sum(fees) -                *)
(* sum(funding_costs) over the recorded trades.                            *)
C4_EquityIdentity ==
    pc = "done" => current_equity = InitialEquity + NetOfTrades(trades)

(* C5: the ledger holds at most one open position per symbol: every        *)
(* opening that has not been closed is in the ledger, the signals of one   *)
(* bar open at most one position, and none when the symbol has one.        *)
C5_OnePositionPerSymbol ==
    /\ [](Cardinality(DOMAIN current_positions) = audit.opened - Len(trades))
    /\ [][(pc = "signals" /\ pc' = "funding")
          => (/\ audit'.opened <= audit.opened + 1
              /\ RunSymbol \in DOMAIN current_positions
                 => (/\ audit'.opened = audit.opened
                     /\ current_positions' = current_positions))]_vars

(* C5 witness: two signals arrived on one bar, the symbol had no position  *)
(* and holds one opened on this bar                                        *)
C5_Witness ==
    /\ pc = "funding"
    /\ Len(audit.signals) = 2
    /\ RunSymbol \in DOMAIN current_positions
    /\ current_positions[RunSymbol].entry_time = current_bar.time
    /\ current_positions[RunSymbol].position_type = audit.signals[1].signal_type
    /\ audit.signals[2].signal_type /= audit.signals[1].signal_type

(* C6: when the ledger processes a PARTIAL exit signal the position stays  *)
(* open with its quantity reduced by the exited quantity and its exit      *)
(* strategy stays active.                                                  *)
C6_PartialKeepsPosition ==
    [][(/\ pc = "exits" /\ pc' = "signals"
        /\ lastCall'.op = "check"
        /\ lastCall'.quantity > 0
        /\ Len(lastCall'.signals) = 1
        /\ lastCall'.signals[1].exit_type = "PARTIAL")
       => (/\ RunSymbol \in DOMAIN current_positions'
           /\ current_positions'[RunSymbol].quantity
                = current_positions[RunSymbol].quantity
                    - lastCall'.signals[1].exit_quantity
           /\ RunSymbol \in DOMAIN active_exits')]_vars

(* C9: at the end of the bar sequence every open position is closed by a   *)
(* MANUAL exit priced from the final bar's close (the close less slippage  *)
(* for a LONG, plus slippage for a SHORT); afterwards no position and no   *)
(* exit strategy remains, and each such position produced one Trade.       *)
C9_EndOfRunClosesAll ==
    [][(pc = "closing" /\ pc' = "done")
       => (/\ current_positions' = <<>>
           /\ active_exits' = <<>>
           /\ trailing_stops' = <<>>
           /\ partial_exits' = <<>>
           /\ Len(trades') = Len(trades) + Cardinality(DOMAIN current_positions)
           /\ \A k \in 1..Len(trades) : trades'[k] = trades[k]
           /\ \A s \in DOMAIN current_positions :
                \E k \in (Len(trades) + 1)..Len(trades') :
                    /\ trades'[k].symbol = s
                    /\ trades'[k].exit_type = "MANUAL"
                    /\ trades'[k].exit_time = current_bar.time
                    /\ trades'[k].quantity = current_positions[s].quantity
                    /\ trades'[k].exit_price
                        = IF current_positions[s].position_type = "LONG"
                          THEN current_bar.close
                                - calculate_slippage(current_bar.close,
                                        current_positions[s].quantity)
                          ELSE current_bar.close
                                + calculate_slippage(current_bar.close,
                                        current_positions[s].quantity))]_vars

(* C9 witness: the run is over and its last trade is the MANUAL close, on  *)
(* the final bar, of a position opened on an earlier bar                   *)
C9_Witness ==
    /\ pc = "done"
    /\ Len(trades) >= 1
    /\ LastTrade.exit_type = "MANUAL"
    /\ LastTrade.exit_time = current_bar.time
    /\ LastTrade.entry_time < LastTrade.exit_time
    /\ current_positions = <<>>

(* C10: for a position held from t0 to t1 the funding deducted from equity *)
(* over its life is notional x average funding rate x (t1 - t0) hours /    *)
(* funding interval hours: every elapsed interval is charged once.         *)
C10_FundingChargedOnce ==
    \A k \in 1..Len(funding_log.closed) :
        LET c == funding_log.closed[k]
        IN  c.deducted
              = (c.entry_price * c.quantity * MoneyScale * avg_funding_rate_num
                    * (c.exit_time - c.entry_time))
                \div (avg_funding_rate_den * funding_interval_hours)

---------------------------------------------------------------------------
(* Properties of the sizers, checked under SpecSizer *)

Sized == lastCall.op = "size_position"
Calculated == lastCall.op = "calculate_position_size"
StopDistance(entry, stop) == IF entry > stop THEN entry - stop ELSE stop - entry

(* C11: a valid sizing result has a quantity that is a non-negative        *)
(* multiple of the step size, and quantity x entry exceeds neither the     *)
(* notional the risk budget allows, R / (d / entry), nor the notional the  *)
(* leverage cap allows, cap x equity.  calculate_position_size rounds to   *)
(* the nearest step and so can exceed both.                                *)
C11_QuantityWithinBudget ==
    /\ (Sized /\ lastCall.result.passes_liq_buffer) =>
          LET r == lastCall.result
              t == lastCall.trade
              c == lastCall.cfg
              lev_cap == IF t.vol_class \in DOMAIN VolClassLeverageCaps
                         THEN VolClassLeverageCaps[t.vol_class]
                         ELSE default_lev_cap
          IN  /\ r.quantity >= 0
              /\ r.quantity % lastCall.meta.step_size = 0
              /\ r.quantity * StopDistance(t.entry, t.sl) * 100
                    <= c.equity_usdt * c.risk_per_trade_pct
              /\ r.quantity * t.entry <= lev_cap * c.equity_usdt
    /\ (Calculated /\ lastCall.result.is_valid) =>
          LET r == lastCall.result
          IN  /\ r.quantity >= 0
              /\ r.quantity % StepSize = 0
              /\ r.quantity
                    * StopDistance(lastCall.entry_price, lastCall.stop_loss)
                    * MoneyScale * max_risk_per_trade_den
                    <= lastCall.equity * max_risk_per_trade_pct
              /\ r.position_size_usdt
                    <= get_max_leverage_for_symbol(lastCall.symbol)
                        * lastCall.equity

Reasons(result) == {result.reasons[k] : k \in DOMAIN result.reasons}

(* C12: a sizing result whose quantity is zero is invalid and carries the  *)
(* reason "qty_rounds_to_zero".  Neither sizer looks at the rounded        *)
(* quantity: both return zero quantities as valid results.                 *)
C12_ZeroQuantityRejected ==
    /\ (Sized /\ lastCall.trade.entry # lastCall.trade.sl
              /\ lastCall.result.quantity = 0) =>
          /\ ~lastCall.result.passes_liq_buffer
          /\ "qty_rounds_to_zero" \in Reasons(lastCall.result)
    /\ (Calculated /\ lastCall.metadata_found
                   /\ lastCall.entry_price # lastCall.stop_loss
                   /\ lastCall.result.quantity = 0) =>
          /\ ~lastCall.result.is_valid
          /\ lastCall.result.reason = "qty_rounds_to_zero"

(* The fallback of lines 85-91 ran: the loop ended with a failing          *)
(* validation, the notional was halved and the validation repeated         *)
FallbackRan(result) == result.checks = result.iterations + 2

(* C13: when the validation still fails after the fallback, the result is  *)
(* invalid and its reasons contain "liquidation_buffer_unreachable".  The  *)
(* result is invalid, but its reasons are those of _check_liq_buffer.      *)
C13_UnreachableBufferReason ==
    (Sized /\ FallbackRan(lastCall.result)) =>
        /\ ~lastCall.result.passes_liq_buffer
        /\ "liquidation_buffer_unreachable" \in Reasons(lastCall.result)

(* The least k with 2^k >= n *)
RECURSIVE CeilLog2(_)
CeilLog2(n) == IF n <= 1 THEN 0 ELSE 1 + CeilLog2((n + 1) \div 2)

C15_LeverageCapped ==
    (Sized /\ lastCall.trade.entry # lastCall.trade.sl) =>
        LET r == lastCall.result
            t == lastCall.trade
            c == lastCall.cfg
            lev_cap == IF t.vol_class \in DOMAIN VolClassLeverageCaps
                       THEN VolClassLeverageCaps[t.vol_class]
                       ELSE default_lev_cap
            R_notional == Frac(c.equity_usdt * c.risk_per_trade_pct * t.entry,
                               100 * StopDistance(t.entry, t.sl))
        IN  /\ r.effective_leverage.num
                  <= Min(lev_cap, lastCall.meta.max_leverage)
                        * r.effective_leverage.den
            /\ ~FracLess(R_notional, r.notional)

(* The liquidation price behind the returned validation, and the two       *)
(* distances of _check_liq_buffer as fractions: from the entry and from    *)
(* the stop to the liquidation price, relative to entry and stop, counted  *)
(* positive on the side where the stop is hit before the liquidation       *)
FinalLiqPrice == compute_exchange_liq_price(lastCall.meta, lastCall.trade.direction, lastCall.trade.entry, lastCall.result.applied_leverage_param)

DistEntry(trade, liq) ==
    [num |-> IF trade.direction = "long"
             THEN trade.entry * liq.den - liq.num
             ELSE liq.num - trade.entry * liq.den,
     den |-> trade.entry * liq.den]

DistStop(trade, liq) ==
    [num |-> IF trade.direction = "long"
             THEN trade.sl * liq.den - liq.num
             ELSE liq.num - trade.sl * liq.den,
     den |-> trade.sl * liq.den]

EntryBufferHolds(trade, liq) ==
    /\ ~FracLess(DistEntry(trade, liq),
                 [num |-> atr_buffer_mult_entry * trade.atr, den |-> trade.entry])
    /\ ~FracLess(DistEntry(trade, liq),
                 [num |-> 1, den |-> liq_buffer_pct_min_den])

StopBufferHolds(trade, liq) ==
    ~FracLess(DistStop(trade, liq),
              [num |-> atr_buffer_mult_sl_num * trade.atr,
               den |-> atr_buffer_mult_sl_den * trade.sl])

(* C16: the validation passes iff (a) the distance from entry to the       *)
(* liquidation price, relative to entry, is at least                       *)
(* max(Z x ATR / entry, minPct) and (b) the distance from stop to the      *)
(* liquidation price, relative to stop, is at least Y x ATR / stop; the    *)
(* reasons are exactly <<"ok">> when it passes and otherwise hold          *)
(* "entry_liq_buffer_fail" iff (a) fails and "sl_liq_buffer_fail" iff (b)  *)
(* fails; and in every SizingResult passes_liq_buffer holds iff the        *)
(* reasons are <<"ok">>.                                                   *)
C16_BufferReasons ==
    Sized =>
        /\ lastCall.result.passes_liq_buffer <=> lastCall.result.reasons = <<"ok">>
        /\ (lastCall.trade.entry # lastCall.trade.sl /\ lastCall.trade.sl > 0) =>
              LET r == lastCall.result
                  a == EntryBufferHolds(lastCall.trade, FinalLiqPrice)
                  b == StopBufferHolds(lastCall.trade, FinalLiqPrice)
              IN  /\ r.passes_liq_buffer <=> (a /\ b)
                  /\ "entry_liq_buffer_fail" \in Reasons(r) <=> ~a
                  /\ "sl_liq_buffer_fail" \in Reasons(r) <=> ~b
                  /\ "ok" \in Reasons(r) <=> (a /\ b)
                  /\ Reasons(r) \subseteq {"ok", "entry_liq_buffer_fail",
                                           "sl_liq_buffer_fail"}

(* A validation that failed on both counts and says so *)
C16_Witness ==
    /\ Sized
    /\ ~lastCall.result.passes_liq_buffer
    /\ ~EntryBufferHolds(lastCall.trade, FinalLiqPrice)
    /\ ~StopBufferHolds(lastCall.trade, FinalLiqPrice)
    /\ lastCall.result.reasons = <<"entry_liq_buffer_fail", "sl_liq_buffer_fail">>

(* C17: with a stop distance of 0 the sizer returns, as a value, an        *)
(* invalid result with zero notional and zero quantity whose reason names  *)
(* the stop distance, and does not run the liquidation-buffer validation.  *)
(* calculate_position_size has no test of the distance: the division by    *)
(* zero is caught and its message becomes the reason.                      *)
C17_ZeroStopDistance ==
    /\ (lastCall.op \in {"size_position", "raised"}
            /\ lastCall.trade.entry = lastCall.trade.sl) =>
          /\ Sized
          /\ ~lastCall.result.passes_liq_buffer
          /\ lastCall.result.notional = Zero
          /\ lastCall.result.quantity = 0
          /\ lastCall.result.reasons = <<"invalid_sl_distance">>
          /\ lastCall.result.checks = 0
    /\ (Calculated /\ lastCall.metadata_found
                   /\ lastCall.entry_price = lastCall.stop_loss) =>
          /\ ~lastCall.result.is_valid
          /\ lastCall.result.position_size_usdt = 0
          /\ lastCall.result.quantity = 0
          /\ lastCall.result.reason = "invalid_sl_distance"

---------------------------------------------------------------------------
(* Properties of the run: equity curve and failed openings, under Spec *)

(* C18: after k bars the equity curve holds k snapshots in bar order; the  *)
(* snapshot of a bar records the equity and the number of open positions   *)
(* as they stood when the bar began, before its exits, entries and         *)
(* funding; and a snapshot once appended is never changed.                 *)
C18_EquityCurveAppendOnly ==
    /\ [](/\ Len(equity_curve) = bar_index + 1
          /\ \A k \in 1..Len(equity_curve) :
                equity_curve[k].timestamp = (k - 1) * BarHours)
    /\ [][/\ Len(equity_curve') >= Len(equity_curve)
          /\ SubSeq(equity_curve', 1, Len(equity_curve)) = equity_curve
          /\ bar_index' # bar_index =>
                /\ Len(equity_curve') = Len(equity_curve) + 1
                /\ equity_curve'[Len(equity_curve')] =
                      [timestamp |-> current_bar'.time,
                       equity |-> current_equity,
                       open_positions |-> Cardinality(DOMAIN current_positions)]
          /\ bar_index' = bar_index => equity_curve' = equity_curve]_vars

(* The run is over, the last bar began with an open position and another   *)
(* equity than the run ended with, and its snapshot still says so          *)
C18_Witness ==
    /\ pc = "done"
    /\ Len(equity_curve) = MaxBars
    /\ equity_curve[MaxBars].open_positions = 1
    /\ current_positions = <<>>
    /\ equity_curve[MaxBars].equity # current_equity
    /\ equity_curve[MaxBars].equity # equity_curve[1].equity

(* C19: as long as no proposal has been executed, no position and no exit  *)
(* strategy exists, no trade is recorded, no funding has been charged, and *)
(* the equity, in every snapshot and at the end of the run, is the initial *)
(* equity.                                                                 *)
C19_NoProposalNoChange ==
    audit.opened = 0 =>
        /\ current_positions = <<>>
        /\ active_exits = <<>>
        /\ trades = <<>>
        /\ funding_log = [open |-> <<>>, closed |-> <<>>]
        /\ current_equity = InitialEquity
        /\ \A k \in 1..Len(equity_curve) :
              /\ equity_curve[k].equity = InitialEquity
              /\ equity_curve[k].open_positions = 0

(* A run over all bars that ended without an executed proposal *)
C19_Witness ==
    /\ pc = "done"
    /\ bar_index = MaxBars - 1
    /\ audit.opened = 0
    /\ current_equity = InitialEquity
    /\ Len(equity_curve) = MaxBars

(* C20: a proposal whose opening fails is skipped with the ledger          *)
(* unchanged.  On a bar where proposals were skipped and none was          *)
(* executed, positions, exit strategies, equity, trades and funding stay   *)
(* as they were; where a later proposal of the bar was executed, the       *)
(* equity falls by the fee of that position alone; in both cases the       *)
(* trades recorded so far are kept and the run goes on to the funding step *)
(* and the following bars.                                                 *)
C20_FailedOpeningSkipped ==
    [][audit'.skipped > audit.skipped =>
          /\ pc = "signals" /\ pc' = "funding"
          /\ trades' = trades
          /\ equity_curve' = equity_curve
          /\ audit'.opened = audit.opened =>
                /\ current_positions' = current_positions
                /\ active_exits' = active_exits
                /\ trailing_stops' = trailing_stops
                /\ partial_exits' = partial_exits
                /\ current_equity' = current_equity
                /\ funding_log' = funding_log
          /\ audit'.opened # audit.opened =>
                /\ audit'.opened = audit.opened + 1
                /\ current_equity' = current_equity
                                     - current_positions'[RunSymbol].fees_paid]_vars

(* A bar with bars to follow on which the first proposal was skipped and   *)
(* the loop went on to execute the second                                  *)
C20_Witness ==
    /\ pc = "funding"
    /\ bar_index < MaxBars - 1
    /\ audit.skipped >= 1
    /\ Len(audit.signals) >= 2
    /\ RunSymbol \in DOMAIN current_positions
    /\ current_positions[RunSymbol].entry_time = current_bar.time
    /\ current_equity = InitialEquity - current_positions[RunSymbol].fees_paid

---------------------------------------------------------------------------
(* The run on a rising bar sequence: the closes increase strictly from bar *)
(* to bar, the one proposal is a LONG on bar 2 whose metadata is found,    *)
(* its take-profit stays above the closes, every bar is processed, and the *)
(* run takes less wall-clock time than the maximum holding duration.       *)

(* The position the run holds on its symbol *)
Position == current_positions[RunSymbol]

RisingBarStart ==
    /\ BarStart
    /\ current_bar'.close > current_bar.close
    /\ RunSymbol \in DOMAIN current_positions
        => current_bar'.close < Position.take_profit

OneLongProposal ==
    /\ ExecuteSignals
    /\ IF bar_index = 1
       THEN /\ Len(audit'.signals) = 1
            /\ audit'.signals[1].signal_type = "LONG"
            /\ audit'.signals[1].stop_loss < current_bar.close
            /\ audit'.signals[1].take_profit > current_bar.close
            /\ RunSymbol \in metadata_cache'
       ELSE audit'.signals = <<>>

FundingToLastBar ==
    /\ ApplyFundingCosts
    /\ pc' = "closing" => bar_index = MaxBars - 1

NextRising ==
    \/ StartBacktest
    \/ RisingBarStart
    \/ CheckExits
    \/ OneLongProposal
    \/ FundingToLastBar
    \/ CloseAllPositions

SpecRising == Init /\ [][NextRising]_vars

(* The proposal of bar 2 has been handled *)
Proposed ==
    \/ bar_index > 1
    \/ bar_index = 1 /\ pc \in {"funding", "bar", "closing", "done"}

(* C21: on a bar sequence of strictly increasing closes with exactly one   *)
(* LONG proposal, on bar 2, whose stop is below the entry and whose        *)
(* take-profit is above the final price, exactly one position is opened,   *)
(* it is never stopped out, and it is closed by a take-profit touch or at  *)
(* the end of the run, with a positive PnL.                                *)
C21_RisingRunHeldToTarget ==
    /\ audit.opened = IF Proposed THEN 1 ELSE 0
    /\ \A k \in 1..Len(trades) :
        /\ trades[k].exit_type \in {"TP", "MANUAL"}
        /\ trades[k].exit_type = "MANUAL" => pc = "done"
        /\ trades[k].pnl > 0
    /\ pc = "done" => Len(trades) = 1

(* C22: during a run a position that hits neither its stop-loss nor its    *)
(* take-profit is fully closed by the time stop on the first bar whose     *)
(* timestamp is at least the maximum holding duration after the entry bar, *)
(* and on no earlier bar: the elapsed duration is the bar time since the   *)
(* entry time of the position.                                             *)
C22_TimeStopInBarTime ==
    [][(/\ pc = "exits" /\ pc' = "signals"
        /\ RunSymbol \in DOMAIN current_positions)
       => LET elapsed == current_bar.time - Position.entry_time
              timed == /\ lastCall'.op = "check"
                       /\ HasType(lastCall'.signals, "TIME")
          IN  /\ timed => elapsed >= max_trade_duration_hours
              /\ (/\ elapsed >= max_trade_duration_hours
                  /\ ~StopLossHit(active_exits[RunSymbol], current_bar.close)
                  /\ ~TakeProfitHit(active_exits[RunSymbol], current_bar.close))
                 => (/\ timed
                     /\ RunSymbol \notin DOMAIN current_positions'
                     /\ Len(trades') = Len(trades) + 1
                     /\ trades'[Len(trades')].exit_type = "TIME"
                     /\ trades'[Len(trades')].quantity = Position.quantity)]_vars

---------------------------------------------------------------------------
(* The exit manager: manual exits *)

(* C23: for a symbol with an active exit strategy manual_exit returns one  *)
(* MANUAL signal for the full quantity given at the price given, whatever  *)
(* the stop-loss, take-profit, partial, trailing and time conditions are,  *)
(* with pnl = (price - entry) * quantity for a LONG and (entry - price) *  *)
(* quantity for a SHORT; for a symbol without a strategy it returns no     *)
(* signal; in both cases it changes nothing in the exit manager.           *)
C23_ManualExitForced ==
    [][lastCall'.op = "manual"
       => (/\ UNCHANGED emVars
           /\ IF lastCall'.symbol \in DOMAIN active_exits
              THEN LET strategy == active_exits[lastCall'.symbol]
                   IN  /\ Len(lastCall'.signals) = 1
                       /\ lastCall'.signals[1].symbol = lastCall'.symbol
                       /\ lastCall'.signals[1].exit_type = "MANUAL"
                       /\ lastCall'.signals[1].exit_price = lastCall'.price
                       /\ lastCall'.signals[1].exit_quantity = lastCall'.quantity
                       /\ lastCall'.signals[1].pnl
                            = IF strategy.position_type = "LONG"
                              THEN (lastCall'.price - strategy.entry_price)
                                       * lastCall'.quantity
                              ELSE (strategy.entry_price - lastCall'.price)
                                       * lastCall'.quantity
                       /\ lastCall'.price = strategy.entry_price
                            => lastCall'.signals[1].pnl = 0
              ELSE lastCall'.signals = <<>>)]_vars

(* C23 witness: a manual exit was asked for a position whose stop-loss is  *)
(* hit at the price given and whose maximum holding duration has elapsed,  *)
(* and it returned a MANUAL signal with a loss                             *)
C23_Witness ==
    /\ lastCall.op = "manual"
    /\ lastCall.symbol \in DOMAIN active_exits
    /\ StopLossHit(active_exits[lastCall.symbol], lastCall.price)
    /\ now - active_exits[lastCall.symbol].entry_time >= max_trade_duration_hours
    /\ lastCall.quantity > 0
    /\ Len(lastCall.signals) = 1
    /\ lastCall.signals[1].exit_type = "MANUAL"
    /\ lastCall.signals[1].pnl < 0

---------------------------------------------------------------------------
(* The run: opening a position *)

(* C24: opening a position on a valid sizing result decreases the equity   *)
(* by exactly the entry fee (the sized notional times the maker fee rate), *)
(* records the position, and creates an exit strategy whose trailing level *)
(* is the initial stop of the position and whose partial-exit flag is      *)
(* unset, whatever exit state an earlier position on the symbol left.      *)
C24_OpeningSeedsExitState ==
    [][(/\ pc = "signals" /\ pc' = "funding"
        /\ audit'.opened = audit.opened + 1)
       => \E k \in 1..Len(audit'.signals) :
            LET signal == audit'.signals[k]
                opened == current_positions'[RunSymbol]
                notional == opened.quantity * signal.entry_price * MoneyScale
                fee == (notional * maker_fee_num) \div maker_fee_den
            IN  /\ RunSymbol \notin DOMAIN current_positions
                /\ RunSymbol \in DOMAIN current_positions'
                /\ calculate_position_size(RunSymbol, signal.entry_price,
                                           signal.stop_loss, current_equity,
                                           TRUE).is_valid
                /\ opened.quantity
                    = calculate_position_size(RunSymbol, signal.entry_price,
                                              signal.stop_loss, current_equity,
                                              TRUE).quantity
                /\ current_equity' = current_equity - fee
                /\ opened.fees_paid = fee
                /\ opened.entry_time = current_bar.time
                /\ opened.position_type = signal.signal_type
                /\ opened.stop_loss = signal.stop_loss
                /\ opened.take_profit = signal.take_profit
                /\ opened.entry_price
                    = IF signal.signal_type = "LONG"
                      THEN current_bar.close + TickSize
                      ELSE current_bar.close - TickSize
                /\ RunSymbol \in DOMAIN active_exits'
                /\ active_exits'[RunSymbol].position_type = signal.signal_type
                /\ active_exits'[RunSymbol].entry_price = opened.entry_price
                /\ active_exits'[RunSymbol].stop_loss = signal.stop_loss
                /\ active_exits'[RunSymbol].take_profit = signal.take_profit
                /\ trailing_stops'[RunSymbol] = signal.stop_loss
                /\ partial_exits'[RunSymbol]
                    = [executed |-> FALSE, quantity |-> 0, price |-> 0]]_vars

(* C24 witness: a position of positive quantity was opened on the bar on   *)
(* which the earlier position on the symbol was closed by a PARTIAL or a   *)
(* TRAILING exit; the new trailing level is the new stop and no partial    *)
(* exit is recorded                                                        *)
C24_Witness ==
    /\ pc = "funding"
    /\ Len(trades) >= 1
    /\ trades[Len(trades)].exit_time = current_bar.time
    /\ trades[Len(trades)].exit_type \in {"PARTIAL", "TRAILING"}
    /\ RunSymbol \in DOMAIN current_positions
    /\ Position.entry_time = current_bar.time
    /\ Position.quantity > 0
    /\ Position.fees_paid > 0
    /\ Position.position_type /= trades[Len(trades)].position_type
    /\ trailing_stops[RunSymbol] = Position.stop_loss
    /\ ~partial_exits[RunSymbol].executed

---------------------------------------------------------------------------
(* The run: configuration errors *)

(* C25: when the metadata of the symbol is missing the run aborts before   *)
(* it processes a bar: it appends no equity snapshot and sizes no          *)
(* proposal, so that no proposal is ever skipped on a bar of the run for   *)
(* want of the metadata.                                                   *)
C25_MissingMetadataAborts ==
    ~(/\ pc = "funding"
      /\ RunSymbol \notin metadata_cache
      /\ audit.signals # <<>>
      /\ audit.skipped = Len(audit.signals)
      /\ equity_curve # <<>>
      /\ current_positions = <<>>)

---------------------------------------------------------------------------
(* The risk engine: the order of the validations *)

(* L, floor(L / 2), floor(L / 4), ..., 1 *)
RECURSIVE HalvingSequence(_)
HalvingSequence(L) ==
    IF L <= 1 THEN <<1>> ELSE <<L>> \o HalvingSequence(L \div 2)

(* min(max(1, int(effective leverage)), symbol max leverage), where the    *)
(* effective leverage is the risk notional over the equity, capped by the  *)
(* leverage cap of the volatility class                                    *)
StartLeverage(cfg, meta, trade) ==
    Min(Max(1, Min((cfg.risk_per_trade_pct * trade.entry)
                        \div (100 * StopDistance(trade.entry, trade.sl)),
                   IF trade.vol_class \in DOMAIN VolClassLeverageCaps
                   THEN VolClassLeverageCaps[trade.vol_class]
                   ELSE default_lev_cap)),
        meta.max_leverage)

(* The validation of one leverage parameter *)
Validates(meta, trade, leverage_param) ==
    check_liq_buffer(trade,
                     compute_exchange_liq_price(meta, trade.direction,
                                                trade.entry,
                                                leverage_param)).passes

(* n times the notional equals the notional of the risk budget, capped by  *)
(* the leverage cap of the volatility class                                *)
NotionalIsFull(cfg, trade, notional, n) ==
    LET d == StopDistance(trade.entry, trade.sl)
        cap == IF trade.vol_class \in DOMAIN VolClassLeverageCaps
               THEN VolClassLeverageCaps[trade.vol_class]
               ELSE default_lev_cap
        budget == cfg.equity_usdt * cfg.risk_per_trade_pct * trade.entry
    IN  IF budget > cap * cfg.equity_usdt * 100 * d
        THEN n * notional.num = cap * cfg.equity_usdt * notional.den
        ELSE n * notional.num * 100 * d = budget * notional.den

(* C26: size_position validates the leverage parameters L, floor(L / 2),   *)
(* floor(L / 4), ..., 1 in that order, L = min(max(1, int(effective        *)
(* leverage)), symbol max leverage), and stops at the first that passes,   *)
(* which it returns with the notional not halved; it halves the notional   *)
(* only after the validation failed at leverage parameter 1; the result is *)
(* valid iff some leverage parameter of the sequence passed.               *)
C26_ValidationOrder ==
    (Sized /\ StopDistance(lastCall.trade.entry, lastCall.trade.sl) > 0) =>
        LET result == lastCall.result
            seq == HalvingSequence(StartLeverage(lastCall.cfg, lastCall.meta,
                                                 lastCall.trade))
            passing == {k \in 1..Len(seq) :
                            Validates(lastCall.meta, lastCall.trade, seq[k])}
        IN  /\ result.passes_liq_buffer = (passing # {})
            /\ IF passing # {}
               THEN LET first == CHOOSE k \in passing :
                                    \A j \in passing : k <= j
                    IN  /\ result.applied_leverage_param = seq[first]
                        /\ result.checks = first
                        /\ result.iterations = first - 1
                        /\ NotionalIsFull(lastCall.cfg, lastCall.trade,
                                          result.notional, 1)
               ELSE /\ result.applied_leverage_param = 1
                    /\ result.iterations = Len(seq) - 1
                    /\ result.checks = Len(seq) + 1
                    /\ NotionalIsFull(lastCall.cfg, lastCall.trade,
                                      result.notional, 2)

(* C26 witness: the validation failed at two leverage parameters and       *)
(* passed at the third, above 1, and the notional is the full one          *)
C26_Witness ==
    /\ Sized
    /\ StopDistance(lastCall.trade.entry, lastCall.trade.sl) > 0
    /\ lastCall.result.iterations = 2
    /\ lastCall.result.checks = 3
    /\ lastCall.result.passes_liq_buffer
    /\ lastCall.result.applied_leverage_param > 1
    /\ NotionalIsFull(lastCall.cfg, lastCall.trade, lastCall.result.notional, 1)

---------------------------------------------------------------------------
(* The exit manager: the effective stop *)

(* C27: across check_exit_signals calls on one position the stop that the  *)
(* stop-loss check uses, strategy.stop_loss, only tightens: no call lowers *)
(* it for a LONG or raises it for a SHORT, the call on which the partial   *)
(* exit moves it to break-even and the calls on which the trailing stop    *)
(* moves it included.                                                      *)
C27_StopOnlyTightens ==
    [][\A s \in Symbols :
        (lastCall'.op = "check" /\ s \in DOMAIN active_exits)
        => (/\ s \in DOMAIN active_exits'
            /\ IF active_exits[s].position_type = "LONG"
               THEN active_exits'[s].stop_loss >= active_exits[s].stop_loss
               ELSE active_exits'[s].stop_loss <= active_exits[s].stop_loss)]_vars

---------------------------------------------------------------------------
(* The run: several exit signals on one bar *)

(* C28: for each open position the ledger records at most one Trade per    *)
(* bar and removes the position at most once: when check_exit_signals      *)
(* returns several signals for one bar, only the first is executed, and    *)
(* the others change neither the equity, nor the trades, nor the           *)
(* positions.                                                              *)
C28_FirstSignalOnly ==
    [][(pc = "exits" /\ pc' = "signals")
       => /\ Len(trades') <= Len(trades) + 1
          /\ (lastCall'.op = "check" /\ lastCall'.signals # <<>>)
             => LET first == lastCall'.signals[1]
                    trade == trades'[Len(trades')]
                IN  /\ trades' = Append(trades, trade)
                    /\ trade.exit_type = first.exit_type
                    /\ trade.exit_reason = first.exit_reason
                    /\ trade.quantity = first.exit_quantity
                    /\ trade.exit_time = current_bar.time
                    /\ current_equity'
                        = current_equity + trade.pnl
                            - (trade.fees - Position.fees_paid)
                            - trade.funding_costs
                    /\ current_positions' = Del(current_positions, RunSymbol)
                    /\ RunSymbol \notin DOMAIN active_exits'
          /\ (lastCall'.op # "check" \/ lastCall'.signals = <<>>)
             => /\ trades' = trades
                /\ current_equity' = current_equity
                /\ current_positions' = current_positions]_vars

(* C28 witness: check_exit_signals returned two signals for the bar, the   *)
(* second for the full quantity, and the one Trade the bar added is that   *)
(* of the first                                                            *)
C28_Witness ==
    /\ pc = "signals"
    /\ lastCall.op = "check"
    /\ Len(lastCall.signals) >= 2
    /\ lastCall.signals[1].exit_type = "PARTIAL"
    /\ lastCall.signals[2].exit_quantity > lastCall.signals[1].exit_quantity
    /\ Len(trades) = 1
    /\ trades[1].exit_type = "PARTIAL"
    /\ trades[1].exit_time = current_bar.time
    /\ current_positions = <<>>

---------------------------------------------------------------------------
(* The risk engine: the notional and the leverage parameter *)

(* C29: in every valid result of size_position the position fits the       *)
(* leverage parameter applied: notional <= applied_leverage_param x        *)
(* equity, that is effective_leverage <= applied_leverage_param, also when *)
(* the parameter was truncated to an integer, capped by the symbol         *)
(* maximum or halved by the loop.                                          *)
C29_NotionalFitsLeverage ==
    (Sized /\ lastCall.result.passes_liq_buffer) =>
        /\ lastCall.result.notional.num
            <= lastCall.result.applied_leverage_param
                * lastCall.cfg.equity_usdt * lastCall.result.notional.den
        /\ lastCall.result.effective_leverage.num
            <= lastCall.result.applied_leverage_param
                * lastCall.result.effective_leverage.den

---------------------------------------------------------------------------
(* The run: the ledger and the exit manager *)

(* C30: at every bar boundary of a run, a symbol has an open position in   *)
(* the ledger iff the exit manager has an active exit strategy for it, and *)
(* trailing levels and partial-exit records exist only for symbols that    *)
(* have an active strategy.                                                *)
C30_LedgerMatchesExitManager ==
    /\ DOMAIN current_positions = DOMAIN active_exits
    /\ DOMAIN trailing_stops \subseteq DOMAIN active_exits
    /\ DOMAIN partial_exits \subseteq DOMAIN active_exits
    /\ \A s \in DOMAIN current_positions :
        /\ active_exits[s].position_type = current_positions[s].position_type
        /\ active_exits[s].entry_price = current_positions[s].entry_price

(* C30 witness: the last bar ends with no position and no exit state after *)
(* the position of the run was closed on it by a PARTIAL exit              *)
C30_Witness ==
    /\ pc = "closing"
    /\ Len(trades) = 1
    /\ trades[1].exit_time = current_bar.time
    /\ trades[1].exit_type = "PARTIAL"
    /\ current_positions = <<>>
    /\ active_exits = <<>>
    /\ trailing_stops = <<>>
    /\ partial_exits = <<>>

====
